---- MODULE Spec2Model ----
(***************************************************************************)
(* Index tuning advisor of postgres-mcp: IndexTuningBase.analyze_workload  *)
(* (dta/index_opt_base.py) driving DatabaseTuningAdvisor (dta/dta_calc.py) *)
(* against a database session reached through SqlDriver.execute_query.     *)
(*                                                                         *)
(* One step of the model is the code between two database round trips.     *)
(* Every round trip either answers or raises; what it answers is chosen    *)
(* from small sets when the round trip is made.                            *)
(*                                                                         *)
(* Costs are the floats of the source counted in units of 1/CostScale, and  *)
(* sizes are bytes counted in units of BytesPerUnit, so that every          *)
(* comparison of the source is an exact integer comparison here.  The       *)
(* objective log(time) + alpha * log(space), alpha = 2, is compared through *)
(* time * space^2.                                                          *)
(***************************************************************************)
EXTENDS Integers, Sequences, FiniteSets, TLC

\* ---------------------------------------------------------------- bounds
MaxWorkload == 2      \* longest workload handed to analyze_workload
MaxClock == 3         \* the wall clock stops advancing here

\* ------------------------------------------------------- program constants
DefaultMinTimeImprovementPct == 10   \* min_time_improvement = 0.1
DefaultParetoAlpha == 2              \* pareto_alpha = 2.0
DefaultTableSizeMb == 10             \* 10 * 1024 * 1024 when nothing is known
MAX_RETRIES == 3                     \* dta/sql_driver.py

BytesPerUnit == 256 * 1024
MiB == (1024 * 1024) \div BytesPerUnit

RECURSIVE Lcm1(_)
Gcd(a, b) == CHOOSE g \in 1..a : a % g = 0 /\ b % g = 0
                 /\ \A h \in 1..a : (a % h = 0 /\ b % h = 0) => h <= g
Lcm1(n) == IF n <= 1 THEN 1 ELSE (Lcm1(n - 1) * n) \div Gcd(Lcm1(n - 1), n)
CostScale == Lcm1(MaxWorkload)

Absent == 0 - 1       \* a key the dictionary does not hold
NoError == "None"

\* ------------------------------------------------------------- the inputs
Table == "t"
Columns == {"a", "b"}

\* IndexConfig(table, columns, using = "btree")
IndexConfig(cols) == [table |-> Table, columns |-> cols, using |-> "btree"]

\* A workload entry: the query text, what parse_sql makes of it, the columns
\* the statement references and those in WHERE/JOIN/HAVING/ORDER BY.
Entry(q, k, cols, cond, calls, avg) ==
    [query |-> q, kind |-> k, cols |-> cols, cond |-> cond,
     calls |-> calls, avg_exec_time |-> avg]

QSelA == Entry("select * from t where a = 1", "select", {"a"}, {"a"}, Absent, Absent)
QSelAB == Entry("select * from t where a = 1 and b = 2", "select",
                {"a", "b"}, {"a", "b"}, Absent, Absent)
QEmpty == Entry("", "empty", {}, {}, Absent, Absent)
QSyntax == Entry("selec 1", "syntax_error", {}, {}, Absent, Absent)
QInsert == Entry("insert into t values (1)", "other_stmt", {}, {}, Absent, Absent)
QSystem == Entry("select * from pg_class", "system_select", {}, {}, Absent, Absent)

\* The arguments of one analyze_workload call.  An argument that is not given
\* (None) and an empty list are both falsy to the source: both are <<>> here,
\* and given names the list arguments that are not None.
NoFile == [given |-> FALSE, readable |-> FALSE, queries |-> <<>>]
CallArgs(w, ql, f, mb) ==
    [workload |-> w, query_list |-> ql, sql_file |-> f, max_index_size_mb |-> mb,
     given |-> (IF w # <<>> THEN {"workload"} ELSE {})
                 \cup (IF ql # <<>> THEN {"query_list"} ELSE {})]

\* The same call with empty lists for the arguments named.
GivenEmpty(a, names) == [a EXCEPT !.given = a.given \cup names]

BudgetArgs == {0 - 1, 0, 1}

VARIABLES
    \* the advisor object (IndexTuningBase.__init__, DatabaseTuningAdvisor.__init__)
    kind,                  \* the class of the object
    has_budget_mb,         \* whether the attribute self.budget_mb exists
    budget_mb,
    max_runtime_seconds,
    max_index_width,
    cost_cache,            \* frozenset of IndexConfig -> cost
    explain_plans_cache,   \* (query text, frozenset of IndexConfig) -> plan cost
    size_estimate_cache,   \* (table, frozenset of columns) -> estimated size
    table_size_cache,      \* table -> size
    analysis_start_time,
    \* the database session
    hypopg,                \* the hypothetical indexes that exist in the session
    now,                   \* wall clock, in seconds
    \* the running analyze_workload call
    pc,
    args,
    session,               \* the DTASession being built
    outcome,               \* "idle", "running", "returned", "raised"
    fr,                    \* the local variables of the call
    ev,                    \* the running _evaluate_configuration_cost call
    \* what an observer of the call has seen so far
    events,                \* kinds of operation performed during this call
    failures,              \* database round trips that raised during this call
    n_explain,             \* EXPLAIN round trips made during this call
    first_cost,            \* index set -> cost its first evaluation returned
    last_search,           \* what the search of the call before this one returned
    \* the SqlDriver and its DbConnPool (dta/sql_driver.py)
    is_pool,               \* SqlDriver.is_pool: conn is a DbConnPool
    conn,                  \* SqlDriver.conn: "pool", "direct" or "none"
    has_url,               \* DbConnPool.connection_url is not empty
    pool,                  \* DbConnPool.pool is not None
    is_valid,              \* DbConnPool._is_valid
    last_error,            \* DbConnPool._last_error
    dc,                    \* the running execute_query or pool_connect call
    \* what an observer of the driver call has seen so far
    sent,                  \* statements sent on the connection during this call
    n_open,                \* attempts to open the pool during this call
    \* the ExplainPlanTool and its server (explain/explain_plan.py, explain/tools.py)
    explain_tool,          \* the module the class was imported from
    server_version,        \* major version of the PostgreSQL server
    xc,                    \* the running explain call
    explain_sent,          \* EXPLAIN statements handed to the driver during this call
    \* one DbConnPool shared by concurrent asyncio tasks (dta/sql_driver.py)
    pool_obj,              \* DbConnPool.pool: the AsyncConnectionPool object, 0 for None
    valid,                 \* DbConnPool._is_valid
    closed_pools,          \* the AsyncConnectionPool objects that close() was called on
    n_pools,               \* AsyncConnectionPool objects created so far
    tasks                  \* task -> the call it is in and where it is suspended

advisorVars == <<kind, has_budget_mb, budget_mb, max_runtime_seconds, max_index_width>>
cacheVars == <<cost_cache, explain_plans_cache, size_estimate_cache, table_size_cache>>
dbVars == <<hypopg, now>>
obsVars == <<events, failures, n_explain, first_cost>>
driverVars == <<is_pool, conn, has_url, pool, is_valid, last_error, dc, sent, n_open>>
tuningVars == <<advisorVars, cacheVars, analysis_start_time, dbVars, pc, args, session,
                outcome, fr, ev, obsVars>>
explainVars == <<explain_tool, server_version, xc, explain_sent>>
poolVars == <<pool_obj, valid, closed_pools, n_pools, tasks>>
toolVars == <<explainVars, last_search, poolVars>>
vars == <<tuningVars, driverVars, toolVars>>

EmptyMap == [x \in {} |-> 0]
Put(f, k, v) == [x \in DOMAIN f \cup {k} |-> IF x = k THEN v ELSE f[x]]

NoSession ==
    [budget_mb |-> 0, workload_source |-> "n/a", recommendations |-> <<>>,
     workload |-> <<>>, error |-> NoError]
NoArgs == CallArgs(<<>>, <<>>, NoFile, 0 - 1)
\* best_index = None
NoIndex == [table |-> "", columns |-> <<>>, using |-> ""]

\* An objective log(time) + alpha * log(space); inf marks float("inf").
Objective(inf, t, s) == [inf |-> inf, time |-> t, space |-> s]

\* The local variables of analyze_workload and of the calls below it.
NoFrame ==
    [query_weights |-> <<>>, existing_defs |-> {}, all_candidates |-> {},
     stage |-> "none",
     \* _enumerate_greedy
     current_indexes |-> {}, candidate_indexes |-> {}, todo |-> {},
     added_indexes |-> <<>>, base_relation_size |-> 0,
     current_time |-> 0, current_space |-> 0,
     current_objective |-> Objective(TRUE, 0, 0),
     candidate |-> NoIndex, test_space |-> 0,
     best_index |-> NoIndex, best_time |-> 0, best_space |-> 0,
     best_objective |-> Objective(TRUE, 0, 0), best_gain |-> 0,
     \* building the recommendations
     best_config |-> {}, indexes_so_far |-> {},
     index_config |-> NoIndex,
     budget_bytes |-> 0, total_size |-> 0, individual_base_cost |-> 0,
     progressive_base_cost |-> 0, progressive_cost |-> 0,
     recommendations |-> <<>>, generated |-> <<>>]

NoEval ==
    [active |-> FALSE, indexes |-> {}, i |-> 0, total_cost |-> 0,
     valid_queries |-> 0, ret |-> "none", result |-> 0,
     repeated |-> FALSE, explains |-> 0, returned |-> FALSE]

\* No search has returned yet.
NoSearch ==
    [done |-> FALSE, candidates |-> {}, sizes |-> EmptyMap, base |-> 0, budget |-> 0,
     indexes |-> {}, cost |-> 0]

\* DTASession(session_id, budget_mb = max_index_size_mb)
NewSession(mb) ==
    [budget_mb |-> mb, workload_source |-> "n/a", recommendations |-> <<>>,
     workload |-> <<>>, error |-> NoError]

\* The state after construction: DatabaseTuningAdvisor.__init__ sets budget_mb,
\* IndexTuningBase.__init__ alone does not.
InitAdvisor(kinds, budgets, runtimes, widths) ==
    /\ kind \in kinds
    /\ IF kind = "DatabaseTuningAdvisor"
       THEN has_budget_mb = TRUE /\ budget_mb \in budgets
       ELSE has_budget_mb = FALSE /\ budget_mb = 0
    /\ max_runtime_seconds \in runtimes
    /\ max_index_width \in widths
    /\ cost_cache = EmptyMap
    /\ explain_plans_cache = EmptyMap
    /\ size_estimate_cache = EmptyMap
    /\ table_size_cache = EmptyMap
    /\ analysis_start_time = 0
    /\ hypopg = {}
    /\ now = 0
    /\ pc = "idle"
    /\ args = NoArgs
    /\ session = NoSession
    /\ outcome = "idle"
    /\ fr = NoFrame
    /\ ev = NoEval
    /\ events = {}
    /\ failures = {}
    /\ n_explain = 0
    /\ first_cost = EmptyMap
    /\ last_search = NoSearch

\* ------------------------------------------------- leaving analyze_workload
\* return session (lines 294-295, and the early returns of lines 228 and 263)
Return(s) ==
    /\ session' = s
    /\ outcome' = "returned"
    /\ pc' = "done"

\* A handler that lets the exception leave analyze_workload: the fault the
\* property of C7 has to notice.
Reraise(s) ==
    /\ session' = s
    /\ outcome' = "raised"
    /\ pc' = "done"

\* except Exception as e: session.error = ... (lines 290-295)
Except(s) == Return([s EXCEPT !.error = "Error in workload analysis"])

\* A database round trip that raised: the exception reaches the handler.
Raises(call) ==
    /\ failures' = failures \cup {call}
    /\ Except(session)

\* -------------------------------------------------------- analyze_workload
\* Lines 209-222: the session starts.  Of the caches only
\* _size_estimate_cache is emptied (line 214), and budget_mb is assigned only
\* for a positive argument (lines 216-217).
\* _enumerate_greedy of the call that is over returned (current_indexes,
\* current_time) at line 430: the candidates, sizes, table size and budget it
\* worked on, and what it returned.
SearchResult ==
    IF kind = "DatabaseTuningAdvisor" /\ fr.stage = "format"
    THEN [done |-> TRUE, candidates |-> fr.all_candidates, sizes |-> size_estimate_cache,
          base |-> fr.base_relation_size, budget |-> budget_mb,
          indexes |-> fr.best_config, cost |-> fr.current_time]
    ELSE NoSearch

StartSession(a) ==
    /\ args' = a
    /\ analysis_start_time' = now
    /\ size_estimate_cache' = EmptyMap
    /\ IF a.max_index_size_mb > 0
       THEN has_budget_mb' = TRUE /\ budget_mb' = a.max_index_size_mb
       ELSE UNCHANGED <<has_budget_mb, budget_mb>>
    /\ session' = NewSession(a.max_index_size_mb)
    /\ outcome' = "running"
    /\ pc' = "check_hypopg"
    /\ fr' = NoFrame
    /\ ev' = NoEval
    /\ events' = {}
    /\ failures' = {}
    /\ n_explain' = 0
    /\ first_cost' = EmptyMap
    /\ last_search' = SearchResult
    /\ UNCHANGED <<kind, max_runtime_seconds, max_index_width, cost_cache,
                   explain_plans_cache, table_size_cache, dbVars, driverVars, explainVars,
                   poolVars>>

\* A call of analyze_workload.  The object outlives the call: a further call
\* finds the budget_mb an earlier call left.  Further calls are explored here
\* on an advisor whose caches and database are still as constructed, which
\* bounds the state space; AnalyzeWorkloadAgain has no such limit.
AnalyzeWorkload(a) ==
    /\ \/ pc = "idle"
       \/ /\ pc = "done"
          /\ cost_cache = EmptyMap
          /\ explain_plans_cache = EmptyMap
          /\ table_size_cache = EmptyMap
          /\ hypopg = {}
          /\ now = 0
    /\ StartSession(a)

\* A call of analyze_workload on an advisor that has served any call before.
AnalyzeWorkloadAgain(a) ==
    /\ pc \in {"idle", "done"}
    /\ StartSession(a)

\* A pre-check whose failure is not reported: the fault the property of C8 has
\* to notice.
SilentPrecheck(message) == Return(session)

\* A failed pre-check (lines 312-314 and 318-326, returned at lines 226-228)
PrecheckFailed(message) == Return([session EXCEPT !.error = message])

\* _run_prechecks, pre-check 1 (lines 309-314): what
\* check_hypopg_installation_status answers is the database's.
CheckHypopg ==
    /\ pc = "check_hypopg"
    /\ \/ /\ pc' = "check_analyze"
          /\ UNCHANGED <<session, outcome, failures>>
       \/ /\ PrecheckFailed("HypoPG is not available")
          /\ UNCHANGED failures
       \/ Raises("hypopg_status")
    /\ UNCHANGED <<toolVars, driverVars, advisorVars, cacheVars, analysis_start_time, dbVars, args, fr, ev,
                   events, n_explain, first_cost>>

\* _run_prechecks, pre-check 2 (lines 317-329)
CheckAnalyze ==
    /\ pc = "check_analyze"
    /\ \/ /\ pc' = "ingest"
          /\ UNCHANGED <<session, outcome, failures>>
       \/ /\ PrecheckFailed("Statistics are not up-to-date")
          /\ UNCHANGED failures
       \/ Raises("last_analyze")
    /\ UNCHANGED <<toolVars, driverVars, advisorVars, cacheVars, analysis_start_time, dbVars, args, fr, ev,
                   events, n_explain, first_cost>>

\* Lines 261-263: an empty workload returns at once.
Ingested(source, w) ==
    LET s == [session EXCEPT !.workload_source = source, !.workload = w]
    IN  IF w = <<>>
        THEN Return(s)
        ELSE session' = s /\ pc' = "validate" /\ UNCHANGED outcome

\* What pg_stat_statements holds (_get_query_stats_direct, lines 438-453).
QueryStats ==
    {<<>>,
     <<Entry("select * from t where a = 1", "select", {"a"}, {"a"}, 50, 5)>>}

\* Lines 236-247 and 420-428: a text becomes an entry with a query id and
\* neither calls nor avg_exec_time.
FromTexts(texts) ==
    [i \in 1..Len(texts) |->
        Entry(texts[i].query, texts[i].kind, texts[i].cols, texts[i].cond, Absent, Absent)]

\* Lines 230-263: the workload source, first hit wins.
Ingest ==
    /\ pc = "ingest"
    /\ events' = events \cup {"ingest"} \cup
                   (IF args.workload = <<>> /\ args.query_list = <<>>
                       /\ ~args.sql_file.given
                    THEN {"pg_stat_statements"} ELSE {})
    /\ IF args.workload # <<>>
       THEN Ingested("args", args.workload) /\ UNCHANGED failures
       ELSE IF args.query_list # <<>>
       THEN Ingested("query_list", FromTexts(args.query_list)) /\ UNCHANGED failures
       ELSE IF args.sql_file.given
       THEN IF args.sql_file.readable
            THEN Ingested("sql_file", FromTexts(args.sql_file.queries))
                 /\ UNCHANGED failures
            ELSE \* _get_workload_from_file raises ValueError (lines 429-430)
                 /\ Except([session EXCEPT !.workload_source = "sql_file"])
                 /\ UNCHANGED failures
       ELSE \/ \E rows \in QueryStats :
                  Ingested("query_store", rows) /\ UNCHANGED failures
            \/ /\ failures' = failures \cup {"pg_stat_statements"}
               /\ Except([session EXCEPT !.workload_source = "query_store"])
    /\ UNCHANGED <<toolVars, driverVars, advisorVars, cacheVars, analysis_start_time, dbVars, args, fr, ev,
                   n_explain, first_cost>>

\* _is_analyzable_stmt (lines 455-467) on what parse_sql returned
IsAnalyzable(q) == q.kind = "select"

\* _validate_and_parse_workload (lines 347-372): the entries kept.  An empty
\* text, a text without statement, a statement that is not a SELECT and a
\* SELECT over system tables alone are skipped.
ValidatedWorkload(w) == SelectSeq(w, IsAnalyzable)

\* parse_sql raises on a text that is not SQL (line 360): nothing catches it
\* before the handler of analyze_workload.
ParseRaises(w) == \E i \in 1..Len(w) : w[i].kind = "syntax_error"

\* convert_query_info_to_weight (lines 378-380)
Get(v, default) == IF v = Absent THEN default ELSE v
convert_query_info_to_weight(q) == Get(q.calls, 1) * Get(q.avg_exec_time, 1)

\* _covert_workload_to_query_weights (lines 374-376)
QueryWeights(w) ==
    [i \in 1..Len(w) |->
        [query |-> w[i].query, cols |-> w[i].cols, cond |-> w[i].cond,
         weight |-> convert_query_info_to_weight(w[i])]]

\* Lines 265-272
Validate ==
    /\ pc = "validate"
    /\ IF ParseRaises(session.workload)
       THEN Except(session) /\ UNCHANGED fr
       ELSE LET w == ValidatedWorkload(session.workload)
                s == [session EXCEPT !.workload = w]
            IN  IF w = <<>>
                THEN Return([s EXCEPT !.recommendations = <<>>]) /\ UNCHANGED fr
                ELSE /\ session' = s
                     /\ fr' = [fr EXCEPT !.query_weights = QueryWeights(w)]
                     /\ pc' = "existing_indexes"
                     /\ UNCHANGED outcome
    /\ UNCHANGED <<toolVars, driverVars, advisorVars, cacheVars, analysis_start_time, dbVars, args, ev, obsVars>>

\* ------------------------------------------------------ existing indexes
\* What _extract_index_info (lines 513-558) reads from a definition.
IndexInfo(t, cols, type, unique) ==
    [table |-> t, columns |-> cols, type |-> type, unique |-> unique]

CandidateInfo(c) == IndexInfo(c.table, c.columns, c.using, FALSE)

Range(f) == {f[x] : x \in DOMAIN f}

\* _is_same_index (lines 606-632)
_is_same_index(index1, index2) ==
    IF index1.table # index2.table THEN FALSE
    ELSE IF index1.type # index2.type THEN FALSE
    ELSE IF index1.columns # index2.columns
         THEN index1.type = "hash" /\ Range(index1.columns) = Range(index2.columns)
    ELSE IF index1.unique /\ ~index2.unique THEN FALSE
    ELSE TRUE

\* An index definition as it is written: the case of the keywords, the number
\* of blanks between CREATE [UNIQUE] and INDEX, the schema prefix, the
\* identifiers as spelled, the access method ("" when no USING is written) and
\* the trailing semicolon.
IndexDefText(upper, blanks, unique, schema, t, cols, method, semicolon) ==
    [upper |-> upper, blanks |-> blanks, unique |-> unique, schema |-> schema,
     table |-> t, columns |-> cols, using |-> method, semicolon |-> semicolon]

\* str.lower() on the identifiers used here
Lower(s) ==
    CASE s = "T" -> "t" [] s = "A" -> "a" [] s = "B" -> "b"
      [] s = "BTREE" -> "btree" [] s = "HASH" -> "hash" [] OTHER -> s

\* Lines 491-493: "CREATE INDEX" in existing_def.upper() or "CREATE UNIQUE
\* INDEX" in existing_def.upper(); upper() levels the case, not the blanks.
LooksLikeIndex(d) == d.blanks = 1

\* parse_sql and _extract_index_info (lines 496-500 and 513-558) on a
\* definition: relname without the schema, the names lowered, btree when no
\* access method is written.
_extract_index_info(d) ==
    IndexInfo(Lower(d.table), [i \in DOMAIN d.columns |-> Lower(d.columns[i])],
              IF d.using = "" THEN "btree" ELSE Lower(d.using), d.unique)

\* _index_exists (lines 469-511)
_index_exists(index, existing_defs) ==
    \E e \in existing_defs :
        /\ LooksLikeIndex(e)
        /\ _is_same_index(CandidateInfo(index), _extract_index_info(e))

\* A definition as pg_indexes.indexdef prints it.
PgIndexDef(unique, t, cols, method) ==
    IndexDefText(TRUE, 1, unique, "public", t, cols, method, FALSE)

\* What pg_indexes holds (_get_existing_indexes, lines 331-345).
ExistingIndexSets == {{}, {PgIndexDef(FALSE, Table, <<"b">>, "btree")}}

\* Hand-formed definitions of one existing index.
HandFormedIndexSets ==
    {{IndexDefText(up, bl, un, sc, t, cols, m, semi)} :
        up \in BOOLEAN, bl \in {1, 2}, un \in BOOLEAN, sc \in {"", "public"},
        t \in {"t", "T"}, cols \in {<<"a">>, <<"b", "a">>, <<"A", "b">>},
        m \in {"", "btree", "HASH"}, semi \in BOOLEAN}

\* Line 279, the definitions being one of the sets given
ReadExistingIndexes(sets) ==
    /\ pc = "existing_indexes"
    /\ \/ \E defs \in sets :
            /\ fr' = [fr EXCEPT !.existing_defs = defs, !.stage = "generate"]
            /\ pc' = "generate_recommendations"
            /\ UNCHANGED <<session, outcome, failures>>
       \/ Raises("pg_indexes") /\ UNCHANGED fr
    /\ UNCHANGED <<toolVars, driverVars, advisorVars, cacheVars, analysis_start_time, dbVars, args, ev,
                   events, n_explain, first_cost>>

GetExistingIndexes == ReadExistingIndexes(ExistingIndexSets)

GetHandFormedIndexes == ReadExistingIndexes(HandFormedIndexSets)

\* ---------------------------------------------------- generate_candidates
DefaultMinColumnUsage == 1

\* Lines 167-183: the columns used by at least min_column_usage queries.
Usage(workload, c) == Cardinality({i \in 1..Len(workload) : c \in workload[i].cols})
KeptColumns(workload) == {c \in Columns : Usage(workload, c) >= DefaultMinColumnUsage}

ColumnOrders(S) ==
    {p \in [1..Cardinality(S) -> S] : \A i, j \in 1..Cardinality(S) : p[i] = p[j] => i = j}

\* The subsequence of col_list at the positions I, in the order of col_list.
RECURSIVE Pick(_, _, _)
Pick(col_list, I, k) ==
    IF k > Len(col_list) THEN <<>>
    ELSE IF k \in I THEN <<col_list[k]>> \o Pick(col_list, I, k + 1)
    ELSE Pick(col_list, I, k + 1)

\* itertools.combinations(col_list, width)
Combinations(col_list, width) ==
    {Pick(col_list, I, 1) : I \in {J \in SUBSET (1..Len(col_list)) : Cardinality(J) = width}}

Min(a, b) == IF a <= b THEN a ELSE b

\* Lines 185-191: col_list = list(cols) lists a set, in an order that is the
\* set's own.
Candidates(col_list, width) ==
    UNION {{IndexConfig(combo) : combo \in Combinations(col_list, w)} :
           w \in 1..Min(width, Len(col_list))}

\* _filter_candidates_by_query_conditions (lines 547-583)
ConditionColumns(workload) == UNION {workload[i].cond : i \in 1..Len(workload)}
FilterByConditions(workload, candidates) ==
    {c \in candidates : Range(c.columns) \subseteq ConditionColumns(workload)}

\* Lines 165-205, up to the catalog query of _filter_long_text_columns.
GenerateCandidates ==
    /\ pc = "generate_recommendations"
    /\ kind = "DatabaseTuningAdvisor"
    /\ events' = events \cup {"candidates"}
    /\ \E col_list \in ColumnOrders(KeptColumns(fr.query_weights)) :
         LET candidates == Candidates(col_list, max_index_width)
             filtered_candidates ==
                 {c \in candidates : ~_index_exists(c, fr.existing_defs)}
             condition_filtered1 ==
                 FilterByConditions(fr.query_weights, filtered_candidates)
         IN  /\ fr' = [fr EXCEPT !.all_candidates = condition_filtered1]
             /\ pc' = IF condition_filtered1 = {} THEN "seed" ELSE "filter_long_text"
    /\ UNCHANGED <<toolVars, driverVars, advisorVars, cacheVars, analysis_start_time, dbVars, args, session,
                   outcome, ev, failures, n_explain, first_cost>>

\* The columns the catalog reports as long text (lines 632-655).
LongTextColumnSets == {{}, {"b"}}

\* _filter_long_text_columns (lines 585-672)
FilterLongTextColumns ==
    /\ pc = "filter_long_text"
    /\ \/ \E problematic \in LongTextColumnSets :
            LET kept == {c \in fr.all_candidates :
                            Range(c.columns) \cap problematic = {}}
            IN  /\ fr' = [fr EXCEPT !.all_candidates = kept]
                /\ pc' = IF kept = {} THEN "seed" ELSE "create_indexes"
                /\ UNCHANGED <<session, outcome, failures>>
       \/ \* if not result: return []
          /\ fr' = [fr EXCEPT !.all_candidates = {}]
          /\ pc' = "seed"
          /\ UNCHANGED <<session, outcome, failures>>
       \/ Raises("information_schema.columns") /\ UNCHANGED fr
    /\ UNCHANGED <<toolVars, driverVars, advisorVars, cacheVars, analysis_start_time, dbVars, args, ev,
                   events, n_explain, first_cost>>

\* Lines 207-213: SELECT hypopg_create_index(...) for every candidate
CreateIndexes ==
    /\ pc = "create_indexes"
    /\ \/ /\ hypopg' = hypopg \cup fr.all_candidates
          /\ events' = events \cup {"create"}
          /\ pc' = "list_indexes"
          /\ UNCHANGED <<session, outcome, failures>>
       \/ Raises("hypopg_create_index") /\ UNCHANGED <<hypopg, events>>
    /\ UNCHANGED <<toolVars, driverVars, advisorVars, cacheVars, analysis_start_time, now, args, fr, ev,
                   n_explain, first_cost>>

\* Lines 215-223: the sizes hypopg_list_indexes reports go to Index.estimated_size,
\* which the IndexConfig built at lines 106-116 does not carry.
ListIndexes ==
    /\ pc = "list_indexes"
    /\ \/ pc' = "reset_indexes" /\ UNCHANGED <<session, outcome, failures>>
       \/ Raises("hypopg_list_indexes")
    /\ UNCHANGED <<toolVars, driverVars, advisorVars, cacheVars, analysis_start_time, dbVars, args, fr, ev,
                   events, n_explain, first_cost>>

\* Line 225
ResetIndexes ==
    /\ pc = "reset_indexes"
    /\ \/ /\ hypopg' = {}
          /\ events' = events \cup {"reset"}
          /\ pc' = "seed"
          /\ UNCHANGED <<session, outcome, failures>>
       \/ Raises("hypopg_reset") /\ UNCHANGED <<hypopg, events>>
    /\ UNCHANGED <<toolVars, driverVars, advisorVars, cacheVars, analysis_start_time, now, args, fr, ev,
                   n_explain, first_cost>>

\* ------------------------------------------------ _check_time (lines 62-67)
_check_time ==
    IF max_runtime_seconds <= 0 THEN FALSE
    ELSE now - analysis_start_time > max_runtime_seconds

\* --------------------------------- _evaluate_configuration_cost (231-272)
\* The Total Cost the planner may report for one query under one configuration.
ExplainCosts == {0, 6, 9, 10}

\* A cost cache that answers with another cost: the fault the property of C3
\* has to notice.
StaleCostCacheLookup(cache, indexes) == cache[indexes] + 1

\* self.cost_cache[indexes]
CostCacheLookup(cache, indexes) == cache[indexes]

\* A handler that caches the sum it has so far: the fault the property of C28
\* has to notice.
CachePartialCost(cache, indexes, total_cost) == Put(cache, indexes, total_cost)

\* Lines 258-259 and 270-272: the handlers raise and leave cost_cache alone.
CostCacheAfterError(cache, indexes, total_cost) == cache

\* The call of _evaluate_configuration_cost(query_weights, indexes) whose value
\* the caller reads at the label ret: lines 237-239 answer from cost_cache, and
\* otherwise the loop of line 248 starts.
CallEvaluate(indexes, ret) ==
    LET repeated == indexes \in DOMAIN first_cost IN
    IF indexes \in DOMAIN cost_cache
    THEN LET cost == CostCacheLookup(cost_cache, indexes) IN
         /\ ev' = [NoEval EXCEPT !.indexes = indexes, !.ret = ret, !.result = cost,
                                 !.repeated = repeated, !.returned = TRUE]
         /\ first_cost' = IF repeated THEN first_cost ELSE Put(first_cost, indexes, cost)
         /\ pc' = ret
    ELSE /\ ev' = [NoEval EXCEPT !.active = TRUE, !.indexes = indexes, !.ret = ret,
                                 !.i = 1, !.repeated = repeated]
         /\ first_cost' = first_cost
         /\ pc' = "evaluate"

\* What one uncached plan asks of the database: without indexes one EXPLAIN;
\* with indexes ExplainPlanTool.generate_explain_plan_with_hypothetical_indexes,
\* which resets, creates every index, explains, and resets again.
ExplainRoundTrips(indexes) ==
    {"explain"} \cup (IF indexes = {} THEN {} ELSE {"create", "reset"})

\* time.time() between two round trips
Tick == IF max_runtime_seconds > 0 THEN {now, Min(now + 1, MaxClock)} ELSE {now}

\* Lines 248-267 for the query ev.i: its plan from the plan cache
\* (get_explain_plan_with_indexes, index_opt_base.py 382-408) or from one
\* EXPLAIN under the hypothetical indexes, which resets, creates the indexes,
\* explains and resets; after the last query the average is cached and returned.
Evaluate ==
    /\ pc = "evaluate"
    /\ LET query == fr.query_weights[ev.i]
           cache_key == <<query.query, ev.indexes>>
           cached == cache_key \in DOMAIN explain_plans_cache
           Accumulate(cost, explained) ==
               LET total_cost == ev.total_cost + cost * query.weight
                   valid_queries == ev.valid_queries + 1
                   explains == ev.explains + (IF explained THEN 1 ELSE 0)
               IN  IF ev.i < Len(fr.query_weights)
                   THEN /\ ev' = [ev EXCEPT !.i = ev.i + 1, !.total_cost = total_cost,
                                            !.valid_queries = valid_queries,
                                            !.explains = explains]
                        /\ pc' = "evaluate"
                        /\ UNCHANGED <<cost_cache, first_cost>>
                   ELSE LET avg_cost == (total_cost * CostScale) \div valid_queries IN
                        /\ cost_cache' = Put(cost_cache, ev.indexes, avg_cost)
                        /\ ev' = [ev EXCEPT !.active = FALSE, !.total_cost = total_cost,
                                            !.valid_queries = valid_queries,
                                            !.explains = explains, !.result = avg_cost,
                                            !.returned = TRUE]
                        /\ first_cost' = IF ev.repeated THEN first_cost
                                         ELSE Put(first_cost, ev.indexes, avg_cost)
                        /\ pc' = ev.ret
       IN  IF cached
           THEN /\ Accumulate(explain_plans_cache[cache_key], FALSE)
                /\ UNCHANGED <<explain_plans_cache, dbVars, session, outcome, events,
                               failures, n_explain>>
           ELSE \/ \E cost \in ExplainCosts, t \in Tick :
                     /\ Accumulate(cost, TRUE)
                     /\ explain_plans_cache' = Put(explain_plans_cache, cache_key, cost)
                     /\ hypopg' = {}
                     /\ now' = t
                     /\ n_explain' = n_explain + 1
                     /\ events' = events \cup ExplainRoundTrips(ev.indexes)
                     /\ UNCHANGED <<session, outcome, failures>>
                \/ \* lines 258-259 and 270-272: ValueError, caught at line 290
                   /\ Raises("explain")
                   /\ cost_cache' = CostCacheAfterError(cost_cache, ev.indexes, ev.total_cost)
                   /\ UNCHANGED <<explain_plans_cache, dbVars, ev, events,
                                  n_explain, first_cost>>
    /\ UNCHANGED <<toolVars, driverVars, advisorVars, size_estimate_cache, table_size_cache,
                   analysis_start_time, args, fr>>

\* ------------------------------------------------------ the seed (99-120)
\* Lines 100-105: the time check, then the cost of the empty configuration.
Seed ==
    /\ pc = "seed"
    /\ IF _check_time
       THEN /\ fr' = [fr EXCEPT !.best_config = {}]
            /\ pc' = "recommend"
            /\ UNCHANGED <<ev, first_cost>>
       ELSE /\ CallEvaluate({}, "enumerate_greedy")
            /\ UNCHANGED fr
    /\ UNCHANGED <<toolVars, driverVars, advisorVars, cacheVars, analysis_start_time, dbVars, args, session,
                   outcome, events, failures, n_explain>>

\* ------------------------------------------------- _enumerate_greedy (274-430)
RECURSIVE Pow(_, _)
Pow(x, n) == IF n = 0 THEN 1 ELSE x * Pow(x, n - 1)

\* o1 < o2 for objectives log(time) + alpha * log(space), compared through
\* time * space^alpha.
ObjectiveLess(o1, o2) ==
    IF o1.inf THEN FALSE
    ELSE IF o2.inf THEN TRUE
    ELSE o1.time * Pow(o1.space, DefaultParetoAlpha)
           < o2.time * Pow(o2.space, DefaultParetoAlpha)

\* Lines 329-333: the start of one pass over the candidates.
StartIteration(f) ==
    [f EXCEPT !.todo = f.candidate_indexes, !.best_index = NoIndex,
              !.best_time = f.current_time, !.best_space = f.current_space,
              !.best_objective = f.current_objective, !.best_gain = 0]

\* Lines 305-315, once base_relation_size is known.
StartSearch(f, base_relation_size) ==
    StartIteration(
        [f EXCEPT !.base_relation_size = base_relation_size,
                  !.current_space = base_relation_size,
                  !.current_objective =
                      IF f.current_time > 0 /\ base_relation_size > 0
                      THEN Objective(FALSE, f.current_time, base_relation_size)
                      ELSE Objective(TRUE, 0, 0)])

\* Lines 105-117 and 300-305: the candidates, their tables, and the size of
\* each table from _table_size_cache (lines 444-445).
EnumerateGreedy ==
    /\ pc = "enumerate_greedy"
    /\ LET f == [fr EXCEPT !.current_time = ev.result, !.current_indexes = {},
                           !.candidate_indexes = fr.all_candidates,
                           !.added_indexes = <<>>]
           tables == {idx.table : idx \in f.candidate_indexes}
       IN  IF tables = {}
           THEN fr' = StartSearch(f, 0) /\ pc' = "greedy"
           ELSE IF Table \in DOMAIN table_size_cache
           THEN fr' = StartSearch(f, table_size_cache[Table]) /\ pc' = "greedy"
           ELSE fr' = f /\ pc' = "get_table_size"
    /\ UNCHANGED <<toolVars, driverVars, advisorVars, cacheVars, analysis_start_time, dbVars, args, session,
                   outcome, ev, obsVars>>

\* Sizes are counted in units of BytesPerUnit bytes.
TableSizes == {40}
EstimatedTableSizes == {8}

\* _get_table_size (lines 448-468): pg_total_relation_size
GetTableSize ==
    /\ pc = "get_table_size"
    /\ \/ \E size \in TableSizes :
            /\ table_size_cache' = Put(table_size_cache, Table, size)
            /\ fr' = StartSearch(fr, size)
            /\ pc' = "greedy"
            /\ UNCHANGED failures
       \/ \* lines 458-460: no row
          /\ pc' = "estimate_table_size"
          /\ UNCHANGED <<table_size_cache, fr, failures>>
       \/ \* lines 463-466: the exception is logged
          /\ failures' = failures \cup {"pg_total_relation_size"}
          /\ pc' = "estimate_table_size"
          /\ UNCHANGED <<table_size_cache, fr>>
    /\ UNCHANGED <<toolVars, driverVars, advisorVars, cost_cache, explain_plans_cache, size_estimate_cache,
                   analysis_start_time, dbVars, args, session, outcome, ev, events,
                   n_explain, first_cost>>

\* _estimate_table_size (lines 470-483): count(*), or 10MB
EstimateTableSize ==
    /\ pc = "estimate_table_size"
    /\ \/ \E size \in EstimatedTableSizes :
            /\ table_size_cache' = Put(table_size_cache, Table, size)
            /\ fr' = StartSearch(fr, size)
            /\ UNCHANGED failures
       \/ /\ table_size_cache' = Put(table_size_cache, Table, DefaultTableSizeMb * MiB)
          /\ fr' = StartSearch(fr, DefaultTableSizeMb * MiB)
          /\ failures' = failures \cup {"count"}
    /\ pc' = "greedy"
    /\ UNCHANGED <<toolVars, driverVars, advisorVars, cost_cache, explain_plans_cache, size_estimate_cache,
                   analysis_start_time, dbVars, args, session, outcome, ev, events,
                   n_explain, first_cost>>

\* The estimates _estimate_index_size_internal (lines 719-725) may produce.
IndexSizes == {0, 3}

\* Lines 335-354: one candidate of the pass, in the order of the set: its
\* size (_estimate_index_size, index_opt_base.py 688-717), the budget check,
\* and the call that evaluates the configuration with it.
EvaluateCandidate ==
    /\ pc = "greedy"
    /\ fr.todo # {}
    /\ \E candidate \in fr.todo :
         LET cache_key == <<candidate.table, Range(candidate.columns)>>
             Sized(index_size) ==
                 LET test_space == fr.current_space + index_size IN
                 IF budget_mb > 0 /\ test_space - fr.base_relation_size > budget_mb * MiB
                 THEN /\ fr' = [fr EXCEPT !.todo = fr.todo \ {candidate}]
                      /\ UNCHANGED <<pc, ev, first_cost>>
                 ELSE /\ fr' = [fr EXCEPT !.candidate = candidate,
                                          !.test_space = test_space]
                      /\ CallEvaluate(fr.current_indexes \cup {candidate},
                                      "candidate_evaluated")
         IN  IF cache_key \in DOMAIN size_estimate_cache
             THEN /\ Sized(size_estimate_cache[cache_key])
                  /\ UNCHANGED <<size_estimate_cache, session, outcome, failures>>
             ELSE \/ \E index_size \in IndexSizes :
                       /\ size_estimate_cache' =
                              Put(size_estimate_cache, cache_key, index_size)
                       /\ Sized(index_size)
                       /\ UNCHANGED <<session, outcome, failures>>
                  \/ /\ Raises("pg_stats")
                     /\ UNCHANGED <<size_estimate_cache, fr, ev, first_cost>>
    /\ UNCHANGED <<toolVars, driverVars, advisorVars, cost_cache, explain_plans_cache, table_size_cache,
                   analysis_start_time, dbVars, args, events, n_explain>>

\* A search without the threshold: the fault the property of C25 has to notice.
NoThreshold(gain, current_time) == FALSE

\* time_improvement < min_time_improvement (line 361), for
\* time_improvement = gain / current_time
BelowThreshold(gain, current_time) ==
    gain * 100 < DefaultMinTimeImprovementPct * current_time

\* Lines 354-379: the candidate's cost against the threshold and the best so
\* far.  time_improvement = (current_time - test_time) / current_time is
\* compared through its numerator, current_time being the same for the pass.
CandidateEvaluated ==
    /\ pc = "candidate_evaluated"
    /\ LET test_time == ev.result
           gain == fr.current_time - test_time
           test_objective == Objective(FALSE, test_time, fr.test_space)
           rest == fr.todo \ {fr.candidate}
       IN  IF fr.current_time = 0
           THEN \* line 358: ZeroDivisionError
                Except(session) /\ UNCHANGED fr
           ELSE IF BelowThreshold(gain, fr.current_time)
           THEN /\ fr' = [fr EXCEPT !.todo = rest]
                /\ pc' = "greedy"
                /\ UNCHANGED <<session, outcome>>
           ELSE IF test_time <= 0 \/ fr.test_space <= 0
           THEN \* line 366: math.log raises ValueError
                Except(session) /\ UNCHANGED fr
           ELSE /\ fr' = IF /\ ObjectiveLess(test_objective, fr.best_objective)
                            /\ gain > fr.best_gain
                         THEN [fr EXCEPT !.todo = rest, !.best_index = fr.candidate,
                                         !.best_time = test_time,
                                         !.best_space = fr.test_space,
                                         !.best_objective = test_objective,
                                         !.best_gain = gain]
                         ELSE [fr EXCEPT !.todo = rest]
                /\ pc' = "greedy"
                /\ UNCHANGED <<session, outcome>>
    /\ UNCHANGED <<toolVars, driverVars, advisorVars, cacheVars, analysis_start_time, dbVars, args, ev,
                   obsVars>>

\* Lines 382-430 and 119-120: the end of a pass.  Without a best index the
\* search returns current_indexes; with one it is added, and the time limit is
\* looked at before the next pass.
EndIteration ==
    /\ pc = "greedy"
    /\ fr.todo = {}
    /\ IF fr.best_index = NoIndex
       THEN /\ fr' = [fr EXCEPT !.best_config = fr.current_indexes]
            /\ pc' = "recommend"
            /\ UNCHANGED <<session, outcome>>
       ELSE IF fr.current_space = 0
       THEN \* line 388: ZeroDivisionError
            Except(session) /\ UNCHANGED fr
       ELSE LET f == [fr EXCEPT
                        !.current_indexes = fr.current_indexes \cup {fr.best_index},
                        !.candidate_indexes = fr.candidate_indexes \ {fr.best_index},
                        !.added_indexes = Append(fr.added_indexes, fr.best_index),
                        !.current_time = fr.best_time,
                        !.current_space = fr.best_space,
                        !.current_objective = fr.best_objective]
            IN  /\ IF _check_time
                   THEN /\ fr' = [f EXCEPT !.best_config = f.current_indexes]
                        /\ pc' = "recommend"
                   ELSE /\ fr' = StartIteration(f)
                        /\ pc' = "greedy"
                /\ UNCHANGED <<session, outcome>>
    /\ UNCHANGED <<toolVars, driverVars, advisorVars, cacheVars, analysis_start_time, dbVars, args, ev,
                   obsVars>>

\* ------------------------------------------- building the recommendations
\* dta_calc.py 122-163 in _generate_recommendations (stage "generate") and
\* index_opt_base.py 727-772 in _format_recommendations (stage "format") are
\* the same code.

\* An IndexRecommendation (index_opt_base.py 93-117)
IndexRecommendation(index, size, prog_base, prog_cost, ind_base, ind_cost) ==
    [table |-> index.table, columns |-> index.columns,
     using |-> index.using, estimated_size_bytes |-> size,
     progressive_base_cost |-> prog_base,
     progressive_recommendation_cost |-> prog_cost,
     individual_base_cost |-> ind_base,
     individual_recommendation_cost |-> ind_cost]

\* Lines 123-125 / 732-735: budget_bytes reads self.budget_mb, an attribute
\* that only DatabaseTuningAdvisor.__init__ (line 51) and analyze_workload
\* (index_opt_base.py 216-217) set.
Recommend ==
    /\ pc = "recommend"
    /\ IF ~has_budget_mb
       THEN \* AttributeError
            /\ Except(session)
            /\ UNCHANGED <<fr, ev, first_cost>>
       ELSE /\ fr' = [fr EXCEPT !.budget_bytes = budget_mb * MiB, !.total_size = 0,
                                !.indexes_so_far = {}, !.recommendations = <<>>,
                                !.todo = fr.best_config]
            /\ CallEvaluate({}, "recommend_base")
            /\ UNCHANGED <<session, outcome>>
    /\ UNCHANGED <<toolVars, driverVars, advisorVars, cacheVars, analysis_start_time, dbVars, args, events,
                   failures, n_explain>>

\* A base cost without the "or 1.0": the fault the property of C4 has to notice.
NoOrOne(cost) == cost

\* individual_base_cost = cost or 1.0 (lines 125 / 735)
OrOne(cost) == IF cost = 0 THEN CostScale ELSE cost

\* Lines 125-128 / 735-738: "or 1.0", and the head of the loop.  In
\* _format_recommendations the best_config of a DatabaseTuningAdvisor is the
\* list its _generate_recommendations returned (index_opt_base.py 284-285),
\* and best_config[0] is an IndexRecommendation or does not exist: TypeError
\* or IndexError.
RecommendBase ==
    /\ pc = "recommend_base"
    /\ IF fr.stage = "format" /\ kind = "DatabaseTuningAdvisor"
       THEN Except(session) /\ UNCHANGED fr
       ELSE LET base == OrOne(ev.result) IN
            /\ fr' = [fr EXCEPT !.individual_base_cost = base,
                                !.progressive_base_cost = base]
            /\ pc' = "recommend_loop"
            /\ UNCHANGED <<session, outcome>>
    /\ UNCHANGED <<toolVars, driverVars, advisorVars, cacheVars, analysis_start_time, dbVars, args, ev,
                   obsVars>>

\* Lines 128-134 / 738-744: the next index of best_config, in the order of
\* the set, and the cost of the indexes so far; after the last one the list is
\* returned: from _generate_recommendations into _format_recommendations
\* (index_opt_base.py 284-285), from _format_recommendations into the session.
RecommendLoop ==
    /\ pc = "recommend_loop"
    /\ IF fr.todo # {}
       THEN /\ \E index_config \in fr.todo :
                 /\ fr' = [fr EXCEPT !.index_config = index_config,
                                     !.indexes_so_far = fr.indexes_so_far \cup {index_config}]
                 /\ CallEvaluate(fr.indexes_so_far \cup {index_config},
                                 "recommend_progressive")
            /\ UNCHANGED session
       ELSE IF fr.stage = "generate"
       THEN /\ fr' = [fr EXCEPT !.generated = fr.recommendations, !.stage = "format"]
            /\ pc' = "recommend"
            /\ UNCHANGED <<session, ev, first_cost>>
       ELSE /\ session' = [session EXCEPT !.recommendations = fr.recommendations]
            /\ pc' = "final_reset"
            /\ UNCHANGED <<fr, ev, first_cost>>
    /\ UNCHANGED <<toolVars, driverVars, advisorVars, cacheVars, analysis_start_time, dbVars, args, outcome,
                   events, failures, n_explain>>

\* Lines 135-138 / 745-748: the cost of the index alone
RecommendProgressive ==
    /\ pc = "recommend_progressive"
    /\ fr' = [fr EXCEPT !.progressive_cost = ev.result]
    /\ CallEvaluate({fr.index_config}, "recommend_individual")
    /\ UNCHANGED <<toolVars, driverVars, advisorVars, cacheVars, analysis_start_time, dbVars, args, session,
                   outcome, events, failures, n_explain>>

\* Lines 140-161 / 750-770: the size of the index, and the recommendation if
\* it fits the budget.
RecommendIndividual ==
    /\ pc = "recommend_individual"
    /\ LET index_config == fr.index_config
           cache_key == <<index_config.table, Range(index_config.columns)>>
           Sized(size) ==
               IF fr.budget_bytes < 0 \/ fr.total_size + size <= fr.budget_bytes
               THEN LET rec == IndexRecommendation(index_config, size,
                                   fr.progressive_base_cost, fr.progressive_cost,
                                   fr.individual_base_cost, ev.result)
                    IN  fr' = [fr EXCEPT !.todo = fr.todo \ {index_config},
                                         !.progressive_base_cost = fr.progressive_cost,
                                         !.recommendations = Append(fr.recommendations, rec),
                                         !.total_size = fr.total_size + size]
               ELSE fr' = [fr EXCEPT !.todo = fr.todo \ {index_config}]
       IN  IF cache_key \in DOMAIN size_estimate_cache
           THEN /\ Sized(size_estimate_cache[cache_key])
                /\ pc' = "recommend_loop"
                /\ UNCHANGED <<size_estimate_cache, session, outcome, failures>>
           ELSE \/ \E size \in IndexSizes :
                     /\ size_estimate_cache' = Put(size_estimate_cache, cache_key, size)
                     /\ Sized(size)
                     /\ pc' = "recommend_loop"
                     /\ UNCHANGED <<session, outcome, failures>>
                \/ Raises("pg_stats") /\ UNCHANGED <<size_estimate_cache, fr>>
    /\ UNCHANGED <<toolVars, driverVars, advisorVars, cost_cache, explain_plans_cache, table_size_cache,
                   analysis_start_time, dbVars, args, ev, events, n_explain, first_cost>>

\* The abstract _generate_recommendations (index_opt_base.py 797-802) of an
\* advisor that keeps to its signature: some set of indexes with a cost, or an
\* exception.
AbstractConfigs == SUBSET {IndexConfig(<<"a">>)}

AbstractGenerate ==
    /\ pc = "generate_recommendations"
    /\ kind = "IndexTuningBase"
    /\ \/ \E best_config \in AbstractConfigs :
            /\ fr' = [fr EXCEPT !.best_config = best_config, !.stage = "format"]
            /\ pc' = "recommend"
            /\ UNCHANGED <<session, outcome>>
       \/ Except(session) /\ UNCHANGED fr
    /\ UNCHANGED <<toolVars, driverVars, advisorVars, cacheVars, analysis_start_time, dbVars, args, ev,
                   obsVars>>

\* index_opt_base.py 287-288: SELECT hypopg_reset()
FinalReset ==
    /\ pc = "final_reset"
    /\ \/ /\ hypopg' = {}
          /\ events' = events \cup {"final_reset"}
          /\ UNCHANGED failures
          /\ Return(session)
       \/ Raises("hypopg_reset") /\ UNCHANGED <<hypopg, events>>
    /\ UNCHANGED <<toolVars, driverVars, advisorVars, cacheVars, analysis_start_time, now, args, fr, ev,
                   n_explain, first_cost>>

\* ------------------------------------------------------------ the system
Step ==
    \/ CheckHypopg
    \/ CheckAnalyze
    \/ Ingest
    \/ Validate
    \/ GetExistingIndexes
    \/ GenerateCandidates
    \/ AbstractGenerate
    \/ FilterLongTextColumns
    \/ CreateIndexes
    \/ ListIndexes
    \/ ResetIndexes
    \/ Seed
    \/ Evaluate
    \/ EnumerateGreedy
    \/ GetTableSize
    \/ EstimateTableSize
    \/ EvaluateCandidate
    \/ CandidateEvaluated
    \/ EndIteration
    \/ Recommend
    \/ RecommendBase
    \/ RecommendLoop
    \/ RecommendProgressive
    \/ RecommendIndividual
    \/ FinalReset

\* ============================================== DbConnPool under concurrency
\* The methods of DbConnPool are coroutines without a lock: a task runs from
\* one await to the next, and between them any other task may run.  One step
\* of a task is the code between two awaits.
MaxPools == 3
Tasks == {1, 2}
NoPool == 0

\* pc: where the task is suspended; op: the call it is in; attempt: the loop
\* variable of pool_connect; result: the pool the call handed to its caller;
\* call: the parity of the number of calls the task has made.
IdleTask == [pc |-> "idle", op |-> "none", attempt |-> 0, result |-> NoPool, call |-> 0]

\* Task t enters op.
NewCall(t, op) == [IdleTask EXCEPT !.op = op, !.call = 1 - tasks[t].call]

InitPool ==
    /\ pool_obj = NoPool
    /\ valid = FALSE
    /\ closed_pools = {}
    /\ n_pools = 0
    /\ tasks = [t \in Tasks |-> IdleTask]

\* The call of task t is over and handed p to its caller; for execute_query p is
\* the pool of line 199, on which the query is then run.
HandOver(t, p) ==
    tasks' = [tasks EXCEPT ![t] =
                 IF tasks[t].op = "execute_query"
                 THEN [@ EXCEPT !.pc = "pool.connection", !.result = p]
                 ELSE [@ EXCEPT !.pc = "idle", !.result = p]]

\* self.pool = AsyncConnectionPool(...); await self.pool.open() (lines 65-73)
CreatePool(t, attempt) ==
    /\ n_pools < MaxPools
    /\ n_pools' = n_pools + 1
    /\ pool_obj' = n_pools + 1
    /\ tasks' = [tasks EXCEPT ![t] = [@ EXCEPT !.pc = "pool.open", !.attempt = attempt]]

\* Lines 90-99 once close() is over: sleep and try again, or raise.
RetryOrRaise(t) ==
    tasks' = [tasks EXCEPT ![t] =
                 IF @.attempt < MAX_RETRIES - 1
                 THEN [@ EXCEPT !.pc = "asyncio.sleep", !.attempt = @ + 1]
                 ELSE [@ EXCEPT !.pc = "idle"]]

\* The except branch of pool_connect (lines 83-88) up to the await in close().
AttemptFailed(t) ==
    /\ valid' = FALSE
    /\ IF pool_obj # NoPool
       THEN /\ closed_pools' = closed_pools \cup {pool_obj}
            /\ tasks' = [tasks EXCEPT ![t] = [@ EXCEPT !.pc = "except.close"]]
            /\ UNCHANGED <<pool_obj, n_pools>>
       ELSE /\ RetryOrRaise(t)
            /\ UNCHANGED <<pool_obj, closed_pools, n_pools>>

\* get_pool (lines 101-106), pool_connect (lines 48-60) or the get_pool of
\* execute_query (line 199), up to the first await: a valid pool is handed
\* over, and otherwise close() is awaited or, with no pool to close, the first
\* pool is created.
TaskGetPool(t, op) ==
    /\ tasks[t].pc = "idle"
    /\ LET call == NewCall(t, op) IN
       IF pool_obj # NoPool /\ valid
       THEN /\ tasks' = [tasks EXCEPT ![t] =
                            IF op = "execute_query"
                            THEN [call EXCEPT !.pc = "pool.connection", !.result = pool_obj]
                            ELSE [call EXCEPT !.result = pool_obj]]
            /\ UNCHANGED <<pool_obj, valid, closed_pools, n_pools>>
       ELSE IF pool_obj # NoPool
       THEN /\ closed_pools' = closed_pools \cup {pool_obj}
            /\ tasks' = [tasks EXCEPT ![t] = [call EXCEPT !.pc = "connect.close"]]
            /\ UNCHANGED <<pool_obj, valid, n_pools>>
       ELSE /\ n_pools < MaxPools
            /\ n_pools' = n_pools + 1
            /\ pool_obj' = n_pools + 1
            /\ tasks' = [tasks EXCEPT ![t] = [call EXCEPT !.pc = "pool.open"]]
            /\ UNCHANGED <<valid, closed_pools>>
    /\ UNCHANGED <<tuningVars, driverVars, explainVars, last_search>>

\* close() (lines 108-116) up to its await: self.pool.close() is called.
TaskClose(t) ==
    /\ tasks[t].pc = "idle"
    /\ IF pool_obj # NoPool
       THEN /\ closed_pools' = closed_pools \cup {pool_obj}
            /\ tasks' = [tasks EXCEPT ![t] = [NewCall(t, "close") EXCEPT !.pc = "close"]]
       ELSE /\ tasks' = [tasks EXCEPT ![t] = NewCall(t, "close")]
            /\ UNCHANGED closed_pools
    /\ UNCHANGED <<tuningVars, driverVars, explainVars, last_search, pool_obj, valid, n_pools>>

\* close() after its await (lines 115-116): self.pool = None, _is_valid = False
TaskClosed(t) ==
    /\ tasks[t].pc = "close"
    /\ pool_obj' = NoPool
    /\ valid' = FALSE
    /\ tasks' = [tasks EXCEPT ![t] = [@ EXCEPT !.pc = "idle"]]
    /\ UNCHANGED <<tuningVars, driverVars, explainVars, last_search, closed_pools, n_pools>>

\* The close() of line 60 is over, and the first pool of the loop is created.
ConnectClosed(t) ==
    /\ tasks[t].pc = "connect.close"
    /\ valid' = FALSE
    /\ CreatePool(t, 0)
    /\ UNCHANGED <<tuningVars, driverVars, explainVars, last_search, closed_pools>>

\* await self.pool.open() is over (line 73).  self.pool.connection() of line 76
\* reads self.pool again: None has no such method, and a closed pool refuses.
PoolOpened(t) ==
    /\ tasks[t].pc = "pool.open"
    /\ \/ /\ pool_obj # NoPool
          /\ pool_obj \notin closed_pools
          /\ tasks' = [tasks EXCEPT ![t] = [@ EXCEPT !.pc = "SELECT 1"]]
          /\ UNCHANGED <<pool_obj, valid, closed_pools, n_pools>>
       \/ AttemptFailed(t)
    /\ UNCHANGED <<tuningVars, driverVars, explainVars, last_search>>

\* SELECT 1 is over (lines 76-82): _is_valid = True, return self.pool
PoolTested(t) ==
    /\ tasks[t].pc = "SELECT 1"
    /\ \/ /\ valid' = TRUE
          /\ HandOver(t, pool_obj)
          /\ UNCHANGED <<pool_obj, closed_pools, n_pools>>
       \/ AttemptFailed(t)
    /\ UNCHANGED <<tuningVars, driverVars, explainVars, last_search>>

\* The close() of line 88 is over.
ExceptClosed(t) ==
    /\ tasks[t].pc = "except.close"
    /\ pool_obj' = NoPool
    /\ valid' = FALSE
    /\ RetryOrRaise(t)
    /\ UNCHANGED <<tuningVars, driverVars, explainVars, last_search, closed_pools, n_pools>>

\* asyncio.sleep(RETRY_DELAY) is over (line 94): the next pass of the loop
Retry(t) ==
    /\ tasks[t].pc = "asyncio.sleep"
    /\ CreatePool(t, tasks[t].attempt)
    /\ UNCHANGED <<tuningVars, driverVars, explainVars, last_search, valid, closed_pools>>

\* The query of execute_query fails on the pool it was handed (lines 200-217):
\* _is_valid = False, and the exception is raised.
QueryFails(t) ==
    /\ tasks[t].pc = "pool.connection"
    /\ valid' = FALSE
    /\ tasks' = [tasks EXCEPT ![t] = [@ EXCEPT !.pc = "idle"]]
    /\ UNCHANGED <<tuningVars, driverVars, explainVars, last_search, pool_obj, closed_pools,
                   n_pools>>

\* ========================================================= ExplainPlanTool
\* A query is the sequence of its tokens.  "$1" and "$2" are bind markers, "$"
\* is a dollar sign that no digit follows, "ILIKE" is a word that contains LIKE.
MaxQueryLen == 2
MinGenericPlanVersion == 16
Tokens == {"a", "$1", "$2", "$", "LIKE", "like", "ILIKE"}
Queries == UNION {[1..n -> Tokens] : n \in 1..MaxQueryLen}
ServerVersions == {15, 16}
ExplainTools == {"explain_plan", "tools"}

\* re.search(r"\$\d+", token)
IsBindMarker(token) == token \in {"$1", "$2"}

\* re.search(r"\bLIKE\b", token, re.IGNORECASE)
IsLike(token) == token \in {"LIKE", "like"}

_has_bind_variables(query) == \E i \in 1..Len(query) : IsBindMarker(query[i])
_has_like_expressions(query) == \E i \in 1..Len(query) : IsLike(query[i])

\* sql.check_postgres_version_requirement(driver, min_version = 16, ...)
check_postgres_version_requirement(version, min_version) == version >= min_version

\* SqlBindParams.replace_parameters: every $N becomes a dummy literal.
replace_parameters(query) ==
    [i \in 1..Len(query) |-> IF IsBindMarker(query[i]) THEN "1" ELSE query[i]]

\* explain_q of _run_explain_query: the options and the query text.
ExplainQuery(query, analyze, generic_plan) ==
    [options |-> <<"FORMAT JSON">>
                   \o (IF analyze THEN <<"ANALYZE">> ELSE <<>>)
                   \o (IF generic_plan THEN <<"GENERIC_PLAN">> ELSE <<>>),
     query |-> query]

NoExplain ==
    [pc |-> "idle", sql_query |-> <<>>, query |-> <<>>, do_analyze |-> FALSE,
     generic_plan |-> FALSE, result |-> "none"]

InitExplain(tools, versions) ==
    /\ explain_tool \in tools
    /\ server_version \in versions
    /\ xc = NoExplain
    /\ explain_sent = <<>>

IdleTools == InitExplain({"tools"}, {MinGenericPlanVersion}) /\ InitPool

\* ExplainPlanTool.explain up to its first await.  The class of explain/tools.py
\* (tools.py 47-50) asks for a generic plan whenever the query has a bind
\* marker; the class of explain/explain_plan.py (explain_plan.py 37-63) asks
\* the server for its version first.
Explain(sql_query, do_analyze) ==
    /\ xc.pc = "idle"
    /\ explain_tool = "tools" => ~do_analyze
    /\ explain_sent' = <<>>
    /\ LET c == [NoExplain EXCEPT !.sql_query = sql_query, !.query = sql_query,
                                  !.do_analyze = do_analyze]
       IN  xc' = IF explain_tool = "tools"
                 THEN [c EXCEPT !.pc = "run",
                                !.generic_plan = _has_bind_variables(sql_query)]
                 ELSE IF _has_bind_variables(sql_query)
                 THEN [c EXCEPT !.pc = "version"]
                 ELSE [c EXCEPT !.pc = "run"]
    /\ UNCHANGED <<tuningVars, driverVars, explain_tool, server_version, last_search,
                   poolVars>>

\* explain_plan.py 41-48 and 59
CheckVersion ==
    /\ xc.pc = "version"
    /\ LET has_like == _has_like_expressions(xc.sql_query)
           meets_pg_version_requirement ==
               check_postgres_version_requirement(server_version, MinGenericPlanVersion)
       IN  xc' = IF ~meets_pg_version_requirement \/ has_like
                 THEN [xc EXCEPT !.pc = "replace"]
                 ELSE [xc EXCEPT !.pc = "run", !.generic_plan = TRUE]
    /\ UNCHANGED <<tuningVars, driverVars, explain_tool, server_version, explain_sent,
                   last_search, poolVars>>

\* explain_plan.py 53-57
ReplaceParameters ==
    /\ xc.pc = "replace"
    /\ xc' = [xc EXCEPT !.pc = "run", !.query = replace_parameters(xc.query),
                        !.generic_plan = FALSE]
    /\ UNCHANGED <<tuningVars, driverVars, explain_tool, server_version, explain_sent,
                   last_search, poolVars>>

\* _run_explain_query: the statement goes to the driver, and the rows or the
\* exception become an ExplainPlanArtifact or an ErrorResult.
RunExplainQuery ==
    /\ xc.pc = "run"
    /\ explain_sent' =
           Append(explain_sent, ExplainQuery(xc.query, xc.do_analyze, xc.generic_plan))
    /\ \E result \in {"ExplainPlanArtifact", "ErrorResult"} :
           xc' = [xc EXCEPT !.pc = "idle", !.result = result]
    /\ UNCHANGED <<tuningVars, driverVars, explain_tool, server_version, last_search,
                   poolVars>>

\* ================================================ SqlDriver and DbConnPool
\* dta/sql_driver.py.  One step is the code between two round trips to the
\* server; every round trip succeeds or raises, with a connection error (the
\* connection is lost) or an execution error (the statement fails).

ErrorKinds == {"connection", "execution"}

\* The local state of a call of execute_query or pool_connect.
NoCall ==
    [pc |-> "idle", op |-> "none", force_readonly |-> FALSE,
     transaction_started |-> FALSE, attempt |-> 0, outcome |-> "none",
     error |-> "none"]

\* SqlDriver(conn = a DbConnPool or a connection) after construction
\* (lines 38-42 and 138-159).
InitDriver(pooled, urls) ==
    /\ is_pool \in pooled
    /\ conn = IF is_pool THEN "pool" ELSE "direct"
    /\ has_url \in urls
    /\ pool = FALSE
    /\ is_valid = FALSE
    /\ last_error = NoError
    /\ dc = NoCall
    /\ sent = <<>>
    /\ n_open = 0

Done(c) == [c EXCEPT !.pc = "idle", !.outcome = "returned"]
Raised(c, err) == [c EXCEPT !.pc = "idle", !.outcome = "raised", !.error = err]

SetDriver(c, cn, pl, v, e) ==
    /\ dc' = c
    /\ conn' = cn
    /\ pool' = pl
    /\ is_valid' = v
    /\ last_error' = e

\* A handler that leaves the pool's validity alone: the fault the property of
\* C18 has to notice.
KeepValid(v) == v

\* self.conn._is_valid = False (line 212)
ValidAfterError(v) == FALSE

\* except Exception as e of execute_query (lines 209-217), for every kind of
\* exception: a pool is marked invalid with str(e), a direct connection is
\* dropped, and the exception is raised again.
ExecuteQueryFailed(c, err, pl, v) ==
    IF is_pool
    THEN SetDriver(Raised(c, err), conn, pl, ValidAfterError(v), err)
    ELSE SetDriver(Raised(c, err), "none", pl, is_valid, last_error)

\* A pool_connect that hands back whatever pool there is: the fault the
\* property of C21 has to notice.
ReturnOldPool(c) == SetDriver(Done(c), conn, pool, is_valid, last_error)

\* pool_connect up to its first attempt (lines 48-60): a valid pool is returned
\* as it is, a missing URL is an error, and an existing pool is closed.
PoolConnect(c) ==
    IF pool /\ is_valid
    THEN SetDriver(Done(c), conn, pool, is_valid, last_error)
    ELSE IF ~has_url
    THEN SetDriver(Raised(c, "no_url"), conn, pool, FALSE, "no_url")
    ELSE SetDriver([c EXCEPT !.pc = "connect", !.attempt = 0], conn, FALSE,
                   IF pool THEN FALSE ELSE is_valid, last_error)

\* DbConnPool.pool_connect called by the owner of the pool.
PoolConnectCall ==
    /\ dc.pc = "idle"
    /\ is_pool
    /\ sent' = <<>>
    /\ n_open' = 0
    /\ PoolConnect([NoCall EXCEPT !.op = "pool_connect", !.outcome = "running"])
    /\ UNCHANGED <<toolVars, tuningVars, is_pool, has_url>>

\* One pass of the loop of lines 62-98: the pool is created, opened and tried
\* with SELECT 1.  A failure closes the pool and is retried after RETRY_DELAY
\* unless it was the last of MAX_RETRIES attempts, which raises.
ConnectAttempt ==
    /\ dc.pc = "connect"
    /\ n_open' = n_open + 1
    /\ \/ SetDriver(IF dc.op = "pool_connect" THEN Done(dc)
                    ELSE [dc EXCEPT !.pc = "acquire"],
                   conn, TRUE, TRUE, NoError)
       \/ IF dc.attempt < MAX_RETRIES - 1
          THEN SetDriver([dc EXCEPT !.attempt = dc.attempt + 1], conn, FALSE, FALSE,
                         "connection")
          ELSE IF dc.op = "pool_connect"
          THEN SetDriver(Raised(dc, "connection"), conn, FALSE, FALSE, "connection")
          ELSE ExecuteQueryFailed(dc, "connection", FALSE, FALSE)
    /\ UNCHANGED <<toolVars, tuningVars, is_pool, has_url, sent>>

\* DbConnPool.close (lines 108-116)
Close ==
    /\ dc.pc = "idle"
    /\ is_pool
    /\ pool
    /\ SetDriver(dc, conn, FALSE, FALSE, last_error)
    /\ UNCHANGED <<toolVars, tuningVars, is_pool, has_url, sent, n_open>>

\* execute_query up to the first round trip (lines 189-207).  A driver whose
\* direct connection was dropped has no engine_url to connect with: connect
\* raises and the handler finds nothing to mark.
ExecuteQuery(force_readonly) ==
    /\ dc.pc = "idle"
    /\ sent' = <<>>
    /\ n_open' = 0
    /\ LET c == [NoCall EXCEPT !.op = "execute_query", !.outcome = "running",
                               !.force_readonly = force_readonly]
           first == IF force_readonly THEN "begin" ELSE "query"
       IN  IF conn = "none"
           THEN SetDriver(Raised(c, "no_connection"), conn, pool, is_valid, last_error)
           ELSE IF ~is_pool
           THEN SetDriver([c EXCEPT !.pc = first], conn, pool, is_valid, last_error)
           ELSE IF pool /\ is_valid
           THEN \* get_pool (lines 101-106) returns the pool
                SetDriver([c EXCEPT !.pc = "acquire"], conn, pool, is_valid, last_error)
           ELSE PoolConnect(c)
    /\ UNCHANGED <<toolVars, tuningVars, is_pool, has_url>>

\* async with pool.connection() (line 197)
Acquire ==
    /\ dc.pc = "acquire"
    /\ \/ SetDriver([dc EXCEPT !.pc = IF dc.force_readonly THEN "begin" ELSE "query"],
                   conn, pool, is_valid, last_error)
       \/ ExecuteQueryFailed(dc, "connection", pool, is_valid)
    /\ UNCHANGED <<toolVars, tuningVars, is_pool, has_url, sent, n_open>>

\* Lines 226-228: BEGIN TRANSACTION READ ONLY
Begin ==
    /\ dc.pc = "begin"
    /\ sent' = Append(sent, "BEGIN TRANSACTION READ ONLY")
    /\ \/ SetDriver([dc EXCEPT !.pc = "query", !.transaction_started = TRUE],
                   conn, pool, is_valid, last_error)
       \/ \E err \in ErrorKinds : ExecuteQueryFailed(dc, err, pool, is_valid)
    /\ UNCHANGED <<toolVars, tuningVars, is_pool, has_url, n_open>>

\* Lines 230-247: the query and its rows.  A failure inside a transaction goes
\* through the rollback of lines 260-266 first.
Query ==
    /\ dc.pc = "query"
    /\ sent' = Append(sent, "QUERY")
    /\ \/ SetDriver([dc EXCEPT !.pc = "end"], conn, pool, is_valid, last_error)
       \/ \E err \in ErrorKinds :
            IF dc.transaction_started
            THEN SetDriver([dc EXCEPT !.pc = "rollback", !.error = err],
                           conn, pool, is_valid, last_error)
            ELSE ExecuteQueryFailed(dc, err, pool, is_valid)
    /\ UNCHANGED <<toolVars, tuningVars, is_pool, has_url, n_open>>

\* A read-only call that commits: the fault the property of C17 has to notice.
CommitAnyway(force_readonly) == "COMMIT"

\* Lines 239-243 and 250-255: how the transaction is ended
EndStatement(force_readonly) == IF force_readonly THEN "ROLLBACK" ELSE "COMMIT"

\* Lines 239-257: COMMIT or ROLLBACK after the query, and the return.
End ==
    /\ dc.pc = "end"
    /\ sent' = Append(sent, EndStatement(dc.force_readonly))
    /\ \/ SetDriver(Done([dc EXCEPT !.transaction_started = FALSE]),
                   conn, pool, is_valid, last_error)
       \/ \E err \in ErrorKinds :
            IF dc.transaction_started
            THEN SetDriver([dc EXCEPT !.pc = "rollback", !.error = err],
                           conn, pool, is_valid, last_error)
            ELSE ExecuteQueryFailed(dc, err, pool, is_valid)
    /\ UNCHANGED <<toolVars, tuningVars, is_pool, has_url, n_open>>

\* Lines 260-269: connection.rollback(), whose own failure is only logged, and
\* the exception raised again into the handler of execute_query.
Rollback ==
    /\ dc.pc = "rollback"
    /\ sent' = Append(sent, "connection.rollback()")
    /\ ExecuteQueryFailed(dc, dc.error, pool, is_valid)
    /\ UNCHANGED <<toolVars, tuningVars, is_pool, has_url, n_open>>

\* A driver on a pool or on a direct connection, serving call after call.
DriverInit ==
    /\ InitAdvisor({"DatabaseTuningAdvisor"}, {0 - 1}, {0}, {1})
    /\ InitDriver(BOOLEAN, BOOLEAN)
    /\ IdleTools
DriverNext ==
    \/ \E force_readonly \in BOOLEAN : ExecuteQuery(force_readonly)
    \/ PoolConnectCall
    \/ ConnectAttempt
    \/ Close
    \/ Acquire
    \/ Begin
    \/ Query
    \/ End
    \/ Rollback
DriverSpec == DriverInit /\ [][DriverNext]_vars

\* Either class on a server before or at version 16, explaining query after query.
ExplainInit ==
    /\ InitAdvisor({"DatabaseTuningAdvisor"}, {0 - 1}, {0}, {1})
    /\ InitDriver({TRUE}, {TRUE})
    /\ InitExplain(ExplainTools, ServerVersions)
    /\ InitPool
ExplainNext ==
    \/ \E sql_query \in Queries, do_analyze \in BOOLEAN : Explain(sql_query, do_analyze)
    \/ CheckVersion
    \/ ReplaceParameters
    \/ RunExplainQuery
ExplainSpec == ExplainInit /\ [][ExplainNext]_vars

\* Two tasks on one DbConnPool, each making call after call.
PoolInit ==
    /\ InitAdvisor({"DatabaseTuningAdvisor"}, {0 - 1}, {0}, {1})
    /\ InitDriver({TRUE}, {TRUE})
    /\ IdleTools
PoolNext ==
    \E t \in Tasks :
        \/ \E op \in {"get_pool", "pool_connect", "execute_query"} : TaskGetPool(t, op)
        \/ TaskClose(t)
        \/ TaskClosed(t)
        \/ ConnectClosed(t)
        \/ PoolOpened(t)
        \/ PoolTested(t)
        \/ ExceptClosed(t)
        \/ Retry(t)
        \/ QueryFails(t)
PoolSpec == PoolInit /\ [][PoolNext]_vars

\* The advisors: a DatabaseTuningAdvisor built with no budget or with 1 MB, and
\* an advisor whose _generate_recommendations keeps to the abstract signature.
Kinds == {"DatabaseTuningAdvisor", "IndexTuningBase"}
CtorBudgets == {0 - 1, 1}

QStatA == Entry("select * from t where a = 2", "select", {"a"}, {"a"}, 50, 5)

Workloads ==
    {w \in {<<QSelAB>>, <<QSelA, QStatA>>, <<QSyntax>>, <<QInsert, QSelA>>,
            <<QEmpty, QSystem>>, <<QSelA, QSyntax>>,
            <<QInsert, QSystem, QSelA>>} : Len(w) <= MaxWorkload}

FileOfOne == [given |-> TRUE, readable |-> TRUE, queries |-> <<QSelA>>]
Files ==
    {[given |-> TRUE, readable |-> FALSE, queries |-> <<>>],
     [given |-> TRUE, readable |-> TRUE, queries |-> <<>>],
     FileOfOne}

Calls ==
    {CallArgs(w, <<>>, NoFile, mb) : w \in Workloads, mb \in BudgetArgs}
      \cup {CallArgs(<<>>, <<QSelA>>, NoFile, 0)}
      \cup {CallArgs(<<>>, <<>>, f, 0) : f \in Files}
      \cup {CallArgs(<<>>, <<>>, NoFile, 0)}
      \cup {GivenEmpty(CallArgs(<<>>, <<>>, NoFile, 0), {"query_list"}),
            GivenEmpty(CallArgs(<<>>, <<QSelA>>, NoFile, 0), {"workload"}),
            GivenEmpty(CallArgs(<<>>, <<>>, FileOfOne, 0), {"workload", "query_list"})}

Init == InitAdvisor(Kinds, CtorBudgets, {0}, {1}) /\ InitDriver({TRUE}, {TRUE}) /\ IdleTools
Next == (\E a \in Calls : AnalyzeWorkload(a)) \/ Step
Spec == Init /\ [][Next]_vars

\* The advisor with a time limit of one clock unit.
TimedCalls == {CallArgs(<<QSelAB>>, <<>>, NoFile, mb) : mb \in {0 - 1, 1}}
TimedInit == InitAdvisor(Kinds, {0 - 1}, {1}, {1}) /\ InitDriver({TRUE}, {TRUE}) /\ IdleTools
TimedNext == (\E a \in TimedCalls : AnalyzeWorkload(a)) \/ Step
TimedSpec == TimedInit /\ [][TimedNext]_vars

\* One advisor object serving call after call, on a workload of one query.
ReuseCalls == {CallArgs(<<QSelAB>>, <<>>, NoFile, mb) : mb \in {0 - 1, 1}}
ReuseInit == InitAdvisor(Kinds, {0 - 1}, {0}, {1}) /\ InitDriver({TRUE}, {TRUE}) /\ IdleTools
ReuseNext == (\E a \in ReuseCalls : AnalyzeWorkloadAgain(a)) \/ Step
ReuseSpec == ReuseInit /\ [][ReuseNext]_vars

\* Workload entries that carry calls, avg_exec_time, both or neither, as a
\* caller may write them into the workload argument.
QCallsOnly == Entry("select * from t where a = 3", "select", {"a"}, {"a"}, 50, Absent)
QTimeOnly == Entry("select * from t where a = 4", "select", {"a"}, {"a"}, Absent, 5)
WeightCalls ==
    {CallArgs(w, <<>>, NoFile, mb) :
        w \in {<<QSelA>>, <<QStatA>>, <<QCallsOnly>>, <<QTimeOnly>>, <<QSelA, QStatA>>},
        mb \in {0 - 1, 1}}
WeightInit == InitAdvisor(Kinds, {0 - 1}, {0}, {1}) /\ InitDriver({TRUE}, {TRUE}) /\ IdleTools
WeightNext == (\E a \in WeightCalls : AnalyzeWorkload(a)) \/ Step
WeightSpec == WeightInit /\ [][WeightNext]_vars

\* generate_candidates alone, for indexes of one and of two columns.
CandidateInit ==
    /\ InitAdvisor({"DatabaseTuningAdvisor"}, CtorBudgets, {0}, {1, 2})
    /\ InitDriver({TRUE}, {TRUE})
    /\ IdleTools
CandidateNext ==
    \/ \E a \in Calls : AnalyzeWorkload(a)
    \/ CheckHypopg
    \/ CheckAnalyze
    \/ Ingest
    \/ Validate
    \/ GetExistingIndexes
    \/ GenerateCandidates
CandidateSpec == CandidateInit /\ [][CandidateNext]_vars

\* The existing-index filter of generate_candidates against hand-formed
\* definitions, on indexes of up to two columns.
ExistsCalls == {CallArgs(<<QSelAB>>, <<>>, NoFile, 0 - 1)}
ExistsInit == InitAdvisor({"DatabaseTuningAdvisor"}, {0 - 1}, {0}, {2}) /\ InitDriver({TRUE}, {TRUE}) /\ IdleTools
ExistsNext ==
    \/ \E a \in ExistsCalls : AnalyzeWorkload(a)
    \/ CheckHypopg
    \/ CheckAnalyze
    \/ Ingest
    \/ Validate
    \/ GetHandFormedIndexes
    \/ GenerateCandidates
ExistsSpec == ExistsInit /\ [][ExistsNext]_vars

\* ================================================================ claims
Returned == pc = "done"

RECURSIVE SumSizes(_)
SumSizes(recs) ==
    IF recs = <<>> THEN 0 ELSE Head(recs).estimated_size_bytes + SumSizes(Tail(recs))

\* The recommendation lists that are returned: by _generate_recommendations of
\* the DatabaseTuningAdvisor, and by analyze_workload in the session.
ReturnedLists == {fr.generated, session.recommendations}

\* ---- C1
\* C1: when analyze_workload returns and no hypopg_reset has itself failed, no
\* hypothetical index that the call created is left in the database: every
\* create was followed by a reset, on every exit path.
C1_CreatePairedWithReset ==
    (Returned /\ "hypopg_reset" \notin failures) => hypopg = {}

\* ---- C2
\* C2: a call with max_index_size_mb = B >= 0 returns recommendations whose
\* estimated sizes sum to at most B MB, whatever budget the advisor had.
C2_SumWithinBudget ==
    (Returned /\ args.max_index_size_mb >= 0) =>
        SumSizes(session.recommendations) <= args.max_index_size_mb * MiB

\* ---- C3
\* C3: when _evaluate_configuration_cost returns for an index set it has
\* already returned a cost for in this session, it returns that same cost and has
\* issued no EXPLAIN.
C3_RepeatedEvaluationIsCached ==
    (ev.returned /\ ev.repeated) =>
        (ev.explains = 0 /\ ev.result = first_cost[ev.indexes])

\* A second evaluation of a non-empty index set, after EXPLAINs were issued
\* for it.
C3_Witness ==
    /\ ev.returned /\ ev.repeated
    /\ ev.indexes # {}
    /\ \E q \in 1..Len(fr.query_weights) :
          <<fr.query_weights[q].query, ev.indexes>> \in DOMAIN explain_plans_cache

\* ---- C4
Chained(recs) ==
    \A k \in 1..(Len(recs) - 1) :
        recs[k + 1].progressive_base_cost = recs[k].progressive_recommendation_cost

C5_MinTimeImprovement ==
    kind = "DatabaseTuningAdvisor" =>
        \A k \in 1..Len(fr.generated) :
            fr.generated[k].progressive_recommendation_cost * 100
                <= fr.generated[k].progressive_base_cost
                     * (100 - DefaultMinTimeImprovementPct)

\* ---- C6
TimeExceeded ==
    max_runtime_seconds > 0 /\ now - analysis_start_time > max_runtime_seconds

\* C6: once the elapsed time exceeds max_runtime_seconds, the advisor starts
\* no further EXPLAIN: the one during which the limit passed was the last.
C6_NoExplainAfterTimeLimit == [][TimeExceeded => n_explain' = n_explain]_vars

\* ---- C7
NewFailures == failures' \ failures
Failed ==
    /\ pc' = "done"
    /\ outcome' = "returned"
    /\ session'.error # NoError

TableSizeCalls == {"pg_total_relation_size", "count"}

PrecheckLabels == {"check_hypopg", "check_analyze"}

\* C8: a call that ends in a pre-check returns a session with error set and
\* no recommendations, and until then has ingested no workload, generated no
\* candidate, created no hypothetical index and run no EXPLAIN.
C8_PrecheckFailure ==
    [][(pc \in PrecheckLabels /\ pc' = "done") =>
          /\ session'.error # NoError
          /\ session'.recommendations = <<>>
          /\ events' = {}
          /\ n_explain' = 0
          /\ hypopg' = hypopg]_vars

\* The session of a database that was never analyzed.
C8_Witness ==
    /\ Returned
    /\ session.error = "Statistics are not up-to-date"
    /\ session.recommendations = <<>>
    /\ events = {}

\* ---- C9
\* C9: a returned session with error set has no recommendations.
C9_ErrorMeansNoRecommendations ==
    (Returned /\ session.error # NoError) => session.recommendations = <<>>

\* ---- C10
\* C10: a workload argument none of whose entries is analyzable (texts that
\* do not parse, statements that are not SELECT, SELECTs over system tables)
\* yields, once the pre-checks passed, no recommendations and no error.
C10_UnanalyzableEntriesSkipped ==
    (/\ Returned
     /\ "ingest" \in events
     /\ args.workload # <<>>
     /\ \A i \in 1..Len(args.workload) : ~IsAnalyzable(args.workload[i]))
    => (session.error = NoError /\ session.recommendations = <<>>)

\* ---- C11
\* The one candidate of the workload was accepted by the search of a
\* DatabaseTuningAdvisor: it lowers the cost by at least min_time_improvement,
\* _generate_recommendations lists it (it fits the budget), and no database
\* call of the session has failed.
OneCandidateAccepted ==
    /\ Returned
    /\ kind = "DatabaseTuningAdvisor"
    /\ failures = {}
    /\ Cardinality(fr.all_candidates) = 1
    /\ fr.added_indexes # <<>>
    /\ Len(fr.generated) = 1
    /\ {} \in DOMAIN cost_cache
    /\ fr.all_candidates \in DOMAIN cost_cache
    /\ cost_cache[fr.all_candidates] * 100
          <= cost_cache[{}] * (100 - DefaultMinTimeImprovementPct)

\* C11: with exactly one candidate that lowers the cost by at least
\* min_time_improvement, lowers the objective and fits the budget,
\* analyze_workload on a DatabaseTuningAdvisor returns no error and exactly one
\* recommendation, for that index, with a progressive cost below its base.
C11_OneCandidateOneRecommendation ==
    OneCandidateAccepted =>
        /\ session.error = NoError
        /\ Len(session.recommendations) = 1
        /\ \A c \in fr.all_candidates :
              /\ session.recommendations[1].table = c.table
              /\ session.recommendations[1].columns = c.columns
        /\ session.recommendations[1].progressive_recommendation_cost
              < session.recommendations[1].progressive_base_cost

\* ---- C12
\* C12: a call with query_list = [] and neither workload nor sql_file, whose
\* pre-checks pass and whose database calls all succeed, returns no
\* recommendations and no error, and has executed hypopg_reset (once, hence at
\* least once).
C12_EmptyQueryList ==
    (/\ Returned
     /\ args.given = {"query_list"}
     /\ args.query_list = <<>> /\ ~args.sql_file.given
     /\ "ingest" \in events
     /\ failures = {})
        => /\ session.recommendations = <<>>
           /\ session.error = NoError
           /\ "reset" \in events

\* ---- C13
\* The first given argument in the order workload, query_list, sql_file, and
\* the statistics view when none is given.
FirstGiven ==
    IF "workload" \in args.given THEN "args"
    ELSE IF "query_list" \in args.given THEN "query_list"
    ELSE IF args.sql_file.given THEN "sql_file"
    ELSE "query_store"

\* C13: once the workload has been ingested, session.workload_source names the
\* first given argument in the order workload, query_list, sql_file, and
\* pg_stat_statements has been queried only if none of the three was given.
C13_FirstGivenSourceWins ==
    (pc # "idle" /\ "ingest" \in events) =>
        /\ session.workload_source = FirstGiven
        /\ "pg_stat_statements" \in events => FirstGiven = "query_store"

\* ---- C14
\* C14: every call of analyze_workload starts with the plan, cost, index-size
\* and table-size caches empty, so that nothing an earlier call wrote is read.
C14_CachesEmptyAtCallStart ==
    [][pc' = "check_hypopg" =>
          /\ explain_plans_cache' = EmptyMap
          /\ cost_cache' = EmptyMap
          /\ size_estimate_cache' = EmptyMap
          /\ table_size_cache' = EmptyMap]_vars

\* ---- C15
\* A candidate of the pass is skipped at the budget test of _enumerate_greedy
\* (dta_calc.py 345): the only step within a pass that removes a candidate
\* without evaluating it.
BudgetSkip ==
    /\ pc = "greedy" /\ pc' = "greedy"
    /\ fr.todo # {} /\ fr'.todo # fr.todo

\* An index of the best configuration is left out at the budget test of the
\* output loop (dta_calc.py 141, index_opt_base.py 751).
BudgetDrop ==
    /\ pc = "recommend_individual" /\ pc' = "recommend_loop"
    /\ fr'.recommendations = fr.recommendations

\* C15: in a call with a negative max_index_size_mb no candidate is skipped and
\* no recommendation is dropped for budget reasons, whatever budget an
\* earlier call on the same advisor used.
C15_NegativeBudgetDisables ==
    [][args.max_index_size_mb < 0 => ~(BudgetSkip \/ BudgetDrop)]_vars

\* ---- C16
\* The candidate and the definition name the same table, the same access method
\* (btree when none is written) and the same columns, in order or, for hash, as
\* a set; schema prefix, case, blanks, semicolon and uniqueness do not count.
SameStructure(c, d) ==
    LET method == IF d.using = "" THEN "btree" ELSE Lower(d.using)
        cols == [i \in DOMAIN d.columns |-> Lower(d.columns[i])]
    IN  /\ Lower(d.table) = c.table
        /\ method = c.using
        /\ \/ cols = c.columns
           \/ method = "hash" /\ Range(cols) = Range(c.columns)

\* C16: no candidate that generate_candidates keeps has the same table, ordered
\* columns and access method as an existing index definition, however the
\* definition is written and whether or not it is UNIQUE.
C16_ExistingIndexSuppressed ==
    \A c \in fr.all_candidates, d \in fr.existing_defs : ~SameStructure(c, d)

\* ---- C17
\* A call of execute_query has come to its end.
QueryCallOver == dc.op = "execute_query" /\ dc.pc = "idle"

\* C17: a finished execute_query with force_readonly has sent BEGIN TRANSACTION
\* READ ONLY before anything else, has never sent COMMIT and, once the
\* transaction was begun, has ended with a rollback, whether the query
\* succeeded or raised; without force_readonly it has sent COMMIT only
\* directly after a query that succeeded.
C17_ReadOnlyRollsBack ==
    QueryCallOver =>
        IF dc.force_readonly
        THEN /\ \A i \in 1..Len(sent) : sent[i] # "COMMIT"
             /\ sent # <<>> => sent[1] = "BEGIN TRANSACTION READ ONLY"
             /\ Len(sent) >= 2 =>
                   /\ sent[2] = "QUERY"
                   /\ sent[Len(sent)] \in {"ROLLBACK", "connection.rollback()"}
        ELSE /\ \A i \in 1..Len(sent) : sent[i] # "BEGIN TRANSACTION READ ONLY"
             /\ \A i \in 1..Len(sent) :
                   sent[i] = "COMMIT" => (i = 2 /\ sent[1] = "QUERY")
             /\ dc.outcome = "returned" => sent = <<"QUERY", "COMMIT">>

\* Read-only calls that returned rows, and that raised after the query failed.
C17_Witness ==
    /\ QueryCallOver
    /\ dc.force_readonly
    /\ dc.outcome = "raised"
    /\ sent = <<"BEGIN TRANSACTION READ ONLY", "QUERY", "connection.rollback()">>

\* The step in which an execute_query call on a pool ends.
QueryCallEnds ==
    /\ is_pool
    /\ dc.pc # "idle"
    /\ dc'.pc = "idle"
    /\ dc'.op = "execute_query"

C19_ExecutionErrorPreservesPool ==
    [][(QueryCallEnds /\ dc'.outcome = "raised" /\ dc'.error = "execution") =>
          /\ pool' = pool
          /\ is_valid' = is_valid
          /\ last_error' = last_error]_vars

\* C20: pool_connect does not retry: a call that raised because the pool could
\* not be opened made exactly one connection attempt.
C20_NoRetryOnFailure ==
    (dc.op = "pool_connect" /\ dc.pc = "idle" /\ dc.outcome = "raised"
        /\ dc.error = "connection") => n_open = 1

\* A call that needs the pool starts: pool_connect itself, or get_pool on
\* behalf of execute_query.
PoolCallStarts ==
    /\ is_pool
    /\ dc.pc = "idle"
    /\ dc' # dc

\* The loop of pool_connect is left, by success or by the last failure.
ConnectLoopEnds ==
    /\ dc.pc = "connect"
    /\ dc'.pc # "connect"

HasOption(statement, option) ==
    \E i \in 1..Len(statement.options) : statement.options[i] = option

\* C22: for a query with $N bind markers, explain runs EXPLAIN with GENERIC_PLAN
\* exactly when the server supports generic plans and the query has no LIKE;
\* otherwise the statement handed to the driver has neither a $N marker nor the
\* GENERIC_PLAN option.
C22_GenericPlanWhenSupported ==
    (xc.pc = "idle" /\ xc.result # "none" /\ _has_bind_variables(xc.sql_query)) =>
        /\ Len(explain_sent) = 1
        /\ LET statement == explain_sent[1]
               generic == /\ server_version >= MinGenericPlanVersion
                          /\ ~_has_like_expressions(xc.sql_query)
           IN  /\ HasOption(statement, "GENERIC_PLAN") <=> generic
               /\ ~generic => ~_has_bind_variables(statement.query)

\* ------------------------------------------------ one pass of the greedy search
\* The pass over the candidates is over (line 382 is next).
PassOver == pc = "greedy" /\ fr.todo = {}

\* What the pass computed for the candidate c: its space, its cost, its gain
\* in time and its objective, as time * space^alpha.
SizeKey(c) == <<c.table, Range(c.columns)>>
TestSpace(c) == fr.current_space + size_estimate_cache[SizeKey(c)]
TestTime(c) == cost_cache[fr.current_indexes \cup {c}]
TimeGain(c) == fr.current_time - TestTime(c)
TestObjective(c) == TestTime(c) * Pow(TestSpace(c), DefaultParetoAlpha)

\* The candidate went through the budget filter (line 345) and the
\* minimum-improvement filter (line 361) of this pass.
Qualifies(c) ==
    /\ SizeKey(c) \in DOMAIN size_estimate_cache
    /\ ~(budget_mb > 0 /\ TestSpace(c) - fr.base_relation_size > budget_mb * MiB)
    /\ (fr.current_indexes \cup {c}) \in DOMAIN cost_cache
    /\ TimeGain(c) * 100 >= DefaultMinTimeImprovementPct * fr.current_time

\* C23: the candidate a pass accepts has the lowest objective among those that
\* passed the budget and minimum-improvement filters, and among candidates of
\* equal objective the highest time improvement.
C23_LowestObjectiveAccepted ==
    (PassOver /\ fr.best_index # NoIndex) =>
        \A c \in fr.candidate_indexes :
            Qualifies(c) =>
                /\ TestObjective(fr.best_index) <= TestObjective(c)
                /\ TestObjective(fr.best_index) = TestObjective(c) =>
                       TimeGain(fr.best_index) >= TimeGain(c)

\* The first k indexes the search accepted (added_indexes[:k], line 402).
AcceptedSoFar(k) == {fr.added_indexes[j] : j \in 1..k}

\* _generate_recommendations of a DatabaseTuningAdvisor has returned its list.
Generated == kind = "DatabaseTuningAdvisor" /\ fr.stage = "format"

\* C24: the recommendations are built in the order in which the search accepted
\* the indexes: the k-th recommendation is the k-th accepted index, and its
\* progressive_recommendation_cost is the cost the search had for the first k
\* accepted indexes.
C24_OutputInSelectionOrder ==
    (Generated /\ Len(fr.generated) = Len(fr.added_indexes)) =>
        \A k \in 1..Len(fr.generated) :
            /\ fr.generated[k].columns = fr.added_indexes[k].columns
            /\ fr.generated[k].progressive_recommendation_cost
                   = cost_cache[AcceptedSoFar(k)]

\* The step of line 400-407: the best index of the pass is accepted.
Accepts == PassOver /\ Len(fr'.added_indexes) = Len(fr.added_indexes) + 1

\* C25: the search never accepts a candidate whose time improvement, relative
\* to the cost of the configuration it is added to, is below
\* min_time_improvement, and a pass in which no candidate qualified ends the
\* search with nothing accepted.
C25_NoAcceptanceBelowThreshold ==
    [][/\ Accepts =>
              (fr.current_time - fr'.current_time) * 100
                  >= DefaultMinTimeImprovementPct * fr.current_time
       /\ (PassOver /\ \A c \in fr.candidate_indexes : ~Qualifies(c)) =>
              (pc' = "recommend" /\ fr'.added_indexes = fr.added_indexes)]_vars

\* The search accepted one index and stopped at a candidate that did not qualify.
C25_Witness ==
    /\ pc = "recommend"
    /\ fr.stage = "generate"
    /\ Len(fr.added_indexes) = 1
    /\ fr.candidate_indexes # {}
    /\ \A c \in fr.candidate_indexes : ~Qualifies(c)

\* The weight the workload entry q is to have.
WeightOf(q) ==
    IF q.calls # Absent /\ q.avg_exec_time # Absent
    THEN q.calls * q.avg_exec_time
    ELSE 1

\* Sums over the queries 1..n of the workload under evaluation.
RECURSIVE SumWeights(_)
SumWeights(n) == IF n = 0 THEN 0 ELSE SumWeights(n - 1) + fr.query_weights[n].weight
RECURSIVE SumWeightedCosts(_, _)
SumWeightedCosts(indexes, n) ==
    IF n = 0 THEN 0
    ELSE SumWeightedCosts(indexes, n - 1)
           + fr.query_weights[n].weight
               * explain_plans_cache[<<fr.query_weights[n].query, indexes>>]

\* The workload has its weights (line 274 of index_opt_base.py is behind).
Weighted ==
    /\ fr.query_weights # <<>>
    /\ Len(fr.query_weights) = Len(session.workload)

\* C26: a query weighs calls * avg_exec_time when both are known and 1
\* otherwise, and the cost of a configuration is the weighted average of the
\* costs of the queries: the sum of weight * cost over the sum of the weights.
C26_WeightedAverageCost ==
    Weighted =>
        /\ \A i \in 1..Len(fr.query_weights) :
               fr.query_weights[i].weight = WeightOf(session.workload[i])
        /\ \A indexes \in DOMAIN cost_cache :
               cost_cache[indexes] * SumWeights(Len(fr.query_weights))
                   = CostScale * SumWeightedCosts(indexes, Len(fr.query_weights))

\* The sequences of w different columns of S, in every order.
OrderedCombinations(S, w) ==
    {p \in [1..w -> S] : \A i, j \in 1..w : p[i] = p[j] => i = j}

\* generate_candidates has enumerated, and neither the existing-index filter
\* nor the condition filter had anything to remove.
Enumerated ==
    /\ pc = "filter_long_text"
    /\ fr.existing_defs = {}
    /\ KeptColumns(fr.query_weights) \subseteq ConditionColumns(fr.query_weights)

\* C27: for a table with n kept columns the candidates are, for every width w
\* from 1 through min(max_index_width, n), every ordered w-combination of the
\* kept columns, and no candidate is empty or wider than max_index_width.
C27_EveryOrderedCombination ==
    Enumerated =>
        LET kept == KeptColumns(fr.query_weights) IN
        /\ \A w \in 1..Min(max_index_width, Cardinality(kept)) :
               \A combo \in OrderedCombinations(kept, w) :
                   IndexConfig(combo) \in fr.all_candidates
        /\ \A c \in fr.all_candidates : Len(c.columns) \in 1..max_index_width

\* An EXPLAIN of the evaluation under way raises.
EvaluationRaises == pc = "evaluate" /\ failures' # failures

\* C28: the cost cache gets an entry for an index set only when every query of
\* the workload has produced a cost in that evaluation, and an evaluation that
\* raises on a query leaves the cost cache as it was.
C28_CostCachedAfterFullPass ==
    [][/\ cost_cache' # cost_cache =>
              /\ pc = "evaluate"
              /\ ev.i = Len(fr.query_weights)
              /\ ev'.valid_queries = Len(fr.query_weights)
              /\ \A q \in 1..Len(fr.query_weights) :
                     <<fr.query_weights[q].query, ev.indexes>>
                         \in DOMAIN explain_plans_cache'
              /\ cost_cache' = Put(cost_cache, ev.indexes, ev'.result)
       /\ EvaluationRaises => cost_cache' = cost_cache]_vars

\* The second query of a workload raised after the first had its cost.
C28_Witness ==
    /\ pc = "done"
    /\ "explain" \in failures
    /\ Len(fr.query_weights) = 2
    /\ ev.valid_queries = 1
    /\ ev.indexes \notin DOMAIN cost_cache

\* _enumerate_greedy has returned to _generate_recommendations (line 117).
SearchOver ==
    /\ kind = "DatabaseTuningAdvisor"
    /\ pc = "recommend"
    /\ fr.stage = "generate"

\* The search of this call worked on what the search of the call before it
\* worked on: the candidates, their sizes, the table size and the budget.  The
\* costs are the same because cost_cache and _explain_plans_cache outlive the
\* call (index_opt_base.py 209-222 empties neither).
SameSearchInputs ==
    /\ last_search.done
    /\ last_search.candidates = fr.all_candidates
    /\ last_search.sizes = size_estimate_cache
    /\ last_search.base = fr.base_relation_size
    /\ last_search.budget = budget_mb

\* C29: the result of _enumerate_greedy does not depend on the order in which
\* the candidate set is iterated: two searches over the same costs, sizes,
\* budget and thresholds return the same index set and the same final cost.
C29_SearchIndependentOfOrder ==
    (SearchOver /\ SameSearchInputs) =>
        /\ fr.best_config = last_search.indexes
        /\ fr.current_time = last_search.cost

\* _is_valid is set only while self.pool is an open pool.
ValidPoolIsOpen == valid => (pool_obj # NoPool /\ pool_obj \notin closed_pools)

\* A call of task t ends in this step and hands a pool to its caller.
HandedOver(t) ==
    /\ tasks'[t] # tasks[t]
    /\ tasks[t].pc \in {"idle", "SELECT 1"}
    /\ tasks'[t].pc \in {"idle", "pool.connection"}
    /\ tasks'[t].op \in {"get_pool", "pool_connect", "execute_query"}
    /\ tasks'[t].result # NoPool

\* C30: however concurrent get_pool, pool_connect, close and failing
\* execute_query calls on one DbConnPool interleave, _is_valid = True implies
\* that pool is not None and has not been closed, and no caller is handed a pool
\* that a call has already closed.
C30_ConcurrentCallsKeepPoolUsable ==
    [][/\ ValidPoolIsOpen'
       /\ \A t \in Tasks : HandedOver(t) => tasks'[t].result \notin closed_pools']_vars

============================================================================
